---- MODULE Spec2Model ----
(***************************************************************************)
(* A model of the gbemu core: the cartridge header, the memory bus with    *)
(* its bank controllers (MBC1/2/3/5), the register file, the instruction   *)
(* loop and the per-slice orchestrator Cpu::tick with its timers and       *)
(* interrupt dispatch.                                                     *)
(*                                                                         *)
(* Buffers (the 64 KiB memory, the cartridge ROM, the external RAM) keep   *)
(* their real lengths and addresses.  A buffer is stored sparsely: `data`  *)
(* holds the bytes that differ from the byte `fill` that every other cell  *)
(* holds, so that a buffer has exactly one representation.                 *)
(***************************************************************************)
EXTENDS Integers, Sequences, FiniteSets, TLC

VARIABLES
    memory_mode,        \* GameBoy.memory_mode : MemoryMode
    registers,          \* GameBoy.registers   : RegisterFile
    memory,             \* GameBoy.memory      : [u8; 0x10000]
    cartridge,          \* GameBoy.cartridge   : Vec<u8> (all ROM banks)
    banks,              \* GameBoy.banks       : Vec<u8> (all external RAM banks)
    panicked,           \* a panic!/unreachable!/index or overflow check ended the program
    overflow_checks,    \* build profile: TRUE = arithmetic overflow panics, FALSE = it wraps
    phase,              \* position inside Cpu::tick: "idle", "loop", "timers", "interrupts"
    delta_time,         \* tick's argument, in T-cycles (delta_time * 4194304)
    cycles_to_execute,  \* tick's local
    cycles_count,       \* tick's local
    ops,                \* number of host calls made so far (bounded by MaxOps)
    h_rom,              \* history: the ROM image GameBoy::new was given
    h_armed,            \* history: EI or RETI has executed since the last interrupt service
    h_enable,           \* history: value of the latest write_u8 to 0x0000..0x1FFF (<<>> if none)
    h_twin,             \* history: the external RAM of a second run that wrote other values
    h_tac,              \* history: value of the latest write_u8 to TAC (<<>> if none)
    h_tick,             \* history of the ticks: [deltas, divs, instructions, single]
    h_last              \* history: the latest step, [op, a, v] (its name and arguments)

vars == <<memory_mode, registers, memory, cartridge, banks, panicked, overflow_checks,
          phase, delta_time, cycles_to_execute, cycles_count, ops,
          h_rom, h_armed, h_enable, h_twin, h_tac, h_tick, h_last>>

-----------------------------------------------------------------------------
(* Bounds of the model *)

\* host calls (write_u8, write_u16, interrupt, tick) per run
MaxOps == 3
MaxBusOps == 4
MaxIoOps == 3

-----------------------------------------------------------------------------
(* Program constants *)

ROM_BANK_SIZE == 16384
RAM_BANK_SIZE == 8192
MAX_ROM_BANKS == 128
MAX_RAM_BANKS == 16
MEMORY_SIZE == 65536

\* memory/locations.rs
CARTRIDGE_TYPE == 327
ROM_SIZE == 328
RAM_SIZE == 329
DESTINATION_CODE == 330
COMPLEMENT_CHECK == 333
P1 == 65280
SB == 65281
SC == 65282
DIV == 65284
TIMA == 65285
TMA == 65286
TAC == 65287
\* IF (a reserved word of TLA+)
IF_REG == 65295
NR10 == 65296
NR11 == 65297
NR12 == 65298
NR13 == 65299
NR14 == 65300
NR21 == 65302
NR22 == 65303
NR23 == 65304
NR24 == 65305
NR30 == 65306
NR31 == 65306
NR32 == 65308
NR33 == 65309
NR34 == 65310
NR41 == 65312
NR42 == 65313
NR43 == 65314
NR44 == 65315
NR50 == 65316
NR51 == 65317
NR52 == 65318
LCDC == 65344
STAT == 65345
SCY == 65346
SCX == 65347
LY == 65348
LYC == 65349
DMA == 65350
BGP == 65351
OBP0 == 65352
OBP1 == 65353
WY == 65354
WX == 65355
IE == 65344

-----------------------------------------------------------------------------
(* u8 / u16 arithmetic *)

Byte == 0..255

RECURSIVE BitAnd(_, _)
BitAnd(a, b) ==
    IF a = 0 \/ b = 0 THEN 0
    ELSE (a % 2) * (b % 2) + 2 * BitAnd(a \div 2, b \div 2)

BitOr(a, b) == a + b - BitAnd(a, b)

\* !x on a u8
BitNot8(x) == 255 - x

\* 1 << i
Shl1(i) == 2 ^ i

TestBit(v, i) == (v \div Shl1(i)) % 2 = 1

-----------------------------------------------------------------------------
(* Buffers *)

Buffer(len, fill) == [len |-> len, fill |-> fill, data |-> [x \in {} |-> fill]]

InBounds(buf, i) == i >= 0 /\ i < buf.len

Get(buf, i) == IF i \in DOMAIN buf.data THEN buf.data[i] ELSE buf.fill

Put(buf, i, v) ==
    [buf EXCEPT !.data =
        IF v = buf.fill
        THEN [x \in (DOMAIN buf.data) \ {i} |-> buf.data[x]]
        ELSE [x \in (DOMAIN buf.data) \cup {i} |-> IF x = i THEN v ELSE buf.data[x]]]

\* the cells of a buffer that differ from its fill
Cells(buf) == DOMAIN buf.data

-----------------------------------------------------------------------------
(* cartridge.rs: the header *)

\* the result of a conversion that panics
PANIC == -1

\* a destination decoder that accepts every byte
M_Destination_from(value) == IF value = 0 THEN "Japanese" ELSE "NonJapanese"

\* impl From<u8> for Destination
Destination_from(value) ==
    CASE value = 0 -> "Japanese"
      [] value = 1 -> "NonJapanese"
      [] OTHER -> "panic"

\* impl From<u8> for CartridgeType
CartridgeType_from(value) ==
    CASE value = \h00 -> "RomOnly"
      [] value \in \h01..\h03 -> "MBC1"
      [] value \in \h05..\h06 -> "MBC2"
      [] value \in \h0F..\h13 -> "MBC3"
      [] value \in \h19..\h1E -> "MBC5"
      [] value \in \h08..\h09 \/ value \in {\h20, \h22} \/ value \in \hFC..\hFF -> "NotSupported"
      [] OTHER -> "Unknown"

\* impl From<u8> for RomSize, as the number of banks (the enum's discriminant)
RomSize_from(value) ==
    CASE value = \h00 -> \h02
      [] value = \h01 -> \h04
      [] value = \h02 -> \h08
      [] value = \h03 -> \h10
      [] value = \h04 -> \h20
      [] value = \h05 -> \h40
      [] value = \h06 -> \h80
      [] value = \h07 -> \h100
      [] value = \h08 -> \h200
      [] value = \h52 -> \h48
      [] value = \h53 -> \h50
      [] value = \h54 -> \h60
      [] OTHER -> PANIC

\* impl From<u8> for RamSize, as the number of banks (the enum's discriminant)
RamSize_from(value) ==
    CASE value = \h00 -> \h00
      [] value = \h02 -> \h01
      [] value = \h03 -> \h04
      [] value = \h04 -> \h10
      [] value = \h05 -> \h08
      [] OTHER -> PANIC

\* impl From<&[u8]> for CartridgeHeader (the fields the core uses)
CartridgeHeader_from(value) ==
    [ cart_type   |-> CartridgeType_from(Get(value, CARTRIDGE_TYPE)),
      rom_size    |-> RomSize_from(Get(value, ROM_SIZE)),
      ram_size    |-> RamSize_from(Get(value, RAM_SIZE)),
      destination |-> Destination_from(Get(value, DESTINATION_CODE)) ]

-----------------------------------------------------------------------------
(* memory/mod.rs: the bank controller's state *)

\* Option<u8>
None == <<>>
Some(v) == <<v>>

\* impl From<CartridgeType> for MemoryMode
MemoryMode_from(value) ==
    CASE value = "RomOnly" -> [kind |-> "RomOnly"]
      [] value = "MBC1" ->
            [kind |-> "MBC1", rom_bank_idx |-> 1, ram_bank_idx |-> 0,
             ram_enabled |-> FALSE, ram_banking |-> TRUE]
      [] value = "MBC2" ->
            [kind |-> "MBC2", rom_bank_idx |-> 1, ram_enabled |-> FALSE]
      [] value = "MBC3" ->
            [kind |-> "MBC3", rom_bank_idx |-> 1, ram_bank_idx |-> 0,
             ram_rtc_enabled |-> FALSE, rtc_selected |-> None, rtc_latched |-> FALSE,
             rtc_seconds |-> 0, rtc_minutes |-> 0, rtc_hours |-> 0, rtc_days |-> 0]
      [] value = "MBC5" ->
            [kind |-> "MBC5", rom_bank_idx |-> 1, ram_bank_idx |-> 0,
             ram_enabled |-> FALSE, rumble_enabled |-> FALSE]
      [] OTHER -> [kind |-> "panic"]

\* Memory::rom_bank_idx
rom_bank_idx(mode) == IF mode.kind = "RomOnly" THEN 1 ELSE mode.rom_bank_idx

\* Memory::ram_bank_idx
ram_bank_idx(mode) == IF mode.kind \in {"RomOnly", "MBC2"} THEN 0 ELSE mode.ram_bank_idx

-----------------------------------------------------------------------------
(* The machine `gb` that the operations below take and return is the record
   [memory_mode, registers, memory, cartridge, banks, panicked, overflow_checks]:
   the fields of struct GameBoy, whether the program has panicked, and the
   build profile.  An operation on a machine that has panicked does nothing. *)

\* buf[i], with Rust's bounds check
Index(buf, i) == IF InBounds(buf, i) THEN Get(buf, i) ELSE PANIC

\* self.memory_mut()[i] = v
SetMemory(gb, i, v) ==
    IF InBounds(gb.memory, i)
    THEN [gb EXCEPT !.memory = Put(@, i, v)]
    ELSE [gb EXCEPT !.panicked = TRUE]

\* self.ram_mut()[i] = v
SetRam(gb, i, v) ==
    IF InBounds(gb.banks, i)
    THEN [gb EXCEPT !.banks = Put(@, i, v)]
    ELSE [gb EXCEPT !.panicked = TRUE]

\* a RAM gate that lets a read through while external RAM is disabled
M_IfEnabled(enabled, byte) == byte

\* if *ram_enabled { <byte> } else { 0 }
IfEnabled(enabled, byte) == IF enabled THEN byte ELSE 0

\* Read::read_u8, 0xA000..=0xBFFF
read_ram_bank(gb, address) ==
    LET mode == gb.memory_mode IN
    CASE mode.kind \in {"MBC1", "MBC5"} ->
            IfEnabled(mode.ram_enabled,
                Index(gb.banks, address - \hA000 + mode.ram_bank_idx * RAM_BANK_SIZE))
      [] mode.kind = "MBC2" ->
            IfEnabled(mode.ram_enabled,
                LET a == address - \hA000 IN
                CASE a \in \hA000..\hA1FF -> Index(gb.banks, a)
                  [] a \in \hA200..\hBFFF -> Index(gb.banks, BitAnd(a, \h1FF))
                  [] OTHER -> PANIC)
      [] mode.kind = "MBC3" ->
            IfEnabled(mode.ram_rtc_enabled,
                IF mode.rtc_selected # None
                THEN LET selected == mode.rtc_selected[1] IN
                     CASE selected = \h08 -> mode.rtc_seconds
                       [] selected = \h09 -> mode.rtc_minutes
                       [] selected = \h0A -> mode.rtc_hours
                       [] selected = \h0B -> mode.rtc_days % 256
                       [] selected = \h0C -> (mode.rtc_days \div 256) % 256
                       [] OTHER -> PANIC
                ELSE Index(gb.banks, address - \hA000 + mode.ram_bank_idx * RAM_BANK_SIZE))
      [] OTHER ->
            Index(gb.banks, address - \hA000 + ram_bank_idx(mode) * RAM_BANK_SIZE)

\* a read without the echo arm
M_read_u8(gb, address) ==
    CASE address \in \h0000..\h3FFF -> Index(gb.cartridge, address)
      [] address \in \h4000..\h7FFF ->
            Index(gb.cartridge,
                  address - \h4000 + rom_bank_idx(gb.memory_mode) * ROM_BANK_SIZE)
      [] address \in \hA000..\hBFFF -> read_ram_bank(gb, address)
      [] OTHER -> Index(gb.memory, address)

\* Read::read_u8: the byte read, or PANIC
read_u8(gb, address) ==
    CASE address \in \h0000..\h3FFF -> Index(gb.cartridge, address)
      [] address \in \h4000..\h7FFF ->
            Index(gb.cartridge,
                  address - \h4000 + rom_bank_idx(gb.memory_mode) * ROM_BANK_SIZE)
      [] address \in \hA000..\hBFFF -> read_ram_bank(gb, address)
      [] address \in \hE000..\hFDFF -> Index(gb.memory, address - \h2000)
      [] OTHER -> Index(gb.memory, address)

\* Read::read_u16: the word read, or PANIC
read_u16(gb, address) ==
    LET lower == read_u8(gb, address)
        upper == read_u8(gb, address + 1)
    IN  IF lower = PANIC \/ upper = PANIC THEN PANIC ELSE upper * 256 + lower

\* a bank-select write that skips bank 0 but stores any other bank
M_ZeroBump(bank) == bank

\* if bank == 0 { 1 } else { bank }
ZeroBump(bank) == IF bank = 0 THEN 1 ELSE bank

\* a RAM-enable decode that compares the whole byte
M_RamEnable(value) == value = 10

\* "Ram enable": value & 0b1111 == 0b1010
RamEnable(value) == BitAnd(value, 15) = 10

\* Write::write_u8, "Handle MBC Registers": the new memory_mode
write_mbc(mode, address, value) ==
    CASE mode.kind = "MBC1" ->
            CASE address \in \h0000..\h1FFF ->
                    [mode EXCEPT !.ram_enabled = RamEnable(value)]
              [] address \in \h2000..\h3FFF ->
                    [mode EXCEPT !.rom_bank_idx = ZeroBump(BitAnd(value, 31))]
              [] address \in \h4000..\h5FFF ->
                    LET bank == BitAnd(value, 3) IN
                    IF mode.ram_banking
                    THEN [mode EXCEPT !.ram_bank_idx = bank]
                    ELSE [mode EXCEPT !.rom_bank_idx = bank * 32 + BitAnd(@, 31)]
              [] address \in \h6000..\h7FFF ->
                    [mode EXCEPT !.ram_banking = (BitAnd(value, 1) = 1)]
              [] OTHER -> mode
      [] mode.kind = "MBC2" ->
            IF address \in \h0000..\h3FFF
            THEN LET bank_switching == (BitAnd(value, 128) = 128) IN
                 IF bank_switching
                 THEN [mode EXCEPT !.rom_bank_idx = ZeroBump(BitAnd(value, 15))]
                 ELSE [mode EXCEPT !.ram_enabled = RamEnable(value)]
            ELSE mode
      [] mode.kind = "MBC3" ->
            CASE address \in \h0000..\h1FFF ->
                    [mode EXCEPT !.ram_rtc_enabled = RamEnable(value)]
              [] address \in \h2000..\h3FFF ->
                    [mode EXCEPT !.rom_bank_idx = ZeroBump(BitAnd(value, 127))]
              [] address \in \h4000..\h5FFF ->
                    CASE value \in \h00..\h03 ->
                            [mode EXCEPT !.ram_bank_idx = BitAnd(value, 3),
                                         !.rtc_selected = None]
                      [] value \in \h08..\h0C ->
                            [mode EXCEPT !.rtc_selected = Some(value)]
                      [] OTHER -> mode
              [] address \in \h6000..\h7FFF ->
                    [mode EXCEPT !.rtc_latched = (BitAnd(value, 1) = 1)]
              [] OTHER -> mode
      [] mode.kind = "MBC5" ->
            CASE address \in \h0000..\h1FFF ->
                    [mode EXCEPT !.ram_enabled = RamEnable(value)]
              [] address \in \h2000..\h2FFF ->
                    [mode EXCEPT !.rom_bank_idx = ZeroBump(value)]
              [] address \in \h3000..\h3FFF ->
                    [mode EXCEPT !.rom_bank_idx = BitAnd(value, 1) * 256 + BitAnd(@, 255)]
              [] address \in \h4000..\h5FFF ->
                    [mode EXCEPT !.ram_bank_idx = BitAnd(value, 15),
                                 !.rumble_enabled = (BitAnd(value, 4) = 4)]
              [] OTHER -> mode
      [] OTHER -> mode

\* Write::write_u8, "Handle RAM bank writes" (address in 0xA000..=0xBFFF)
write_ram_bank(gb, address, value) ==
    LET mode == gb.memory_mode IN
    CASE mode.kind \in {"MBC1", "MBC5"} ->
            IF mode.ram_enabled
            THEN SetRam(gb, address - \hA000 + mode.ram_bank_idx * RAM_BANK_SIZE, value)
            ELSE gb
      [] mode.kind = "MBC3" ->
            IF mode.rtc_selected = None /\ mode.ram_rtc_enabled
            THEN SetRam(gb, address - \hA000 + mode.ram_bank_idx * RAM_BANK_SIZE, value)
            ELSE gb
      [] mode.kind = "MBC2" ->
            CASE address \in \hA000..\hA1FF ->
                    IF mode.ram_enabled THEN SetRam(gb, address - \hA000, value) ELSE gb
              [] address \in \hA200..\hBFFF ->
                    IF mode.ram_enabled
                    THEN SetRam(gb, BitAnd(address - \hA000, \h1FF), value)
                    ELSE gb
              [] OTHER -> gb
      [] OTHER -> gb

\* a normal write without the DIV arm: the value is stored in DIV
M_write_normal_div(gb, address, value) ==
    CASE address \in \h0000..\h7FFF \/ address \in \hFEA0..\hFEFF -> gb
      [] address \in \hE000..\hFDFF -> SetMemory(gb, address - \h2000, value)
      [] address = LY -> SetMemory(gb, address, 0)
      [] address = TAC ->
            LET current_freq == BitAnd(Get(gb.memory, TAC), 3)
                new_freq == BitAnd(value, 3)
            IN  IF current_freq # new_freq THEN SetMemory(gb, TIMA, 0) ELSE gb
      [] OTHER -> SetMemory(gb, address, value)

\* a normal write that stores into the ROM image
M_write_normal(gb, address, value) ==
    CASE address \in \h0000..\h7FFF -> [gb EXCEPT !.cartridge = Put(@, address, value)]
      [] address \in \hFEA0..\hFEFF -> gb
      [] address \in \hE000..\hFDFF -> SetMemory(gb, address - \h2000, value)
      [] address \in {DIV, LY} -> SetMemory(gb, address, 0)
      [] address = TAC -> gb
      [] OTHER -> SetMemory(gb, address, value)

\* Write::write_u8, "Handle normal writes"
write_normal(gb, address, value) ==
    CASE address \in \h0000..\h7FFF \/ address \in \hFEA0..\hFEFF -> gb
      [] address \in \hE000..\hFDFF -> SetMemory(gb, address - \h2000, value)
      [] address \in {DIV, LY} -> SetMemory(gb, address, 0)
      [] address = TAC ->
            LET current_freq == BitAnd(Get(gb.memory, TAC), 3)
                new_freq == BitAnd(value, 3)
            IN  IF current_freq # new_freq THEN SetMemory(gb, TIMA, 0) ELSE gb
      [] OTHER -> SetMemory(gb, address, value)

\* a write whose controller decode ignores bit 15 of the address
M_write_u8(gb, address, value) ==
    IF gb.panicked THEN gb
    ELSE LET g1 == [gb EXCEPT !.memory_mode = write_mbc(@, address % \h8000, value)] IN
         IF address \in \hA000..\hBFFF
         THEN write_ram_bank(g1, address, value)
         ELSE write_normal(g1, address, value)

\* Write::write_u8
write_u8(gb, address, value) ==
    IF gb.panicked THEN gb
    ELSE LET g1 == [gb EXCEPT !.memory_mode = write_mbc(@, address, value)] IN
         IF address \in \hA000..\hBFFF
         THEN write_ram_bank(g1, address, value)
         ELSE write_normal(g1, address, value)

\* Write::write_u16
write_u16(gb, address, value) ==
    LET upper == value \div 256
        lower == value % 256
    IN  write_u8(write_u8(gb, address, lower), address + 1, upper)

-----------------------------------------------------------------------------
(* cpu.rs: the register file *)

\* union Register { value: u16, hi: u8, lo: u8 }: the three fields of the union
\* share offset 0, so on a little-endian host `hi` and `lo` both name the low
\* byte of `value`.
Register_hi(r) == r % 256
Register_lo(r) == r % 256
Register_set_hi(r, v) == (r \div 256) * 256 + v
Register_set_lo(r, v) == (r \div 256) * 256 + v

\* enum Register8Index, with the discriminant of each variant
Register8Index == {"A", "B", "C", "D", "E", "H", "L", "F", "HL"}

Discriminant(index) ==
    CASE index = "A" -> 0 [] index = "B" -> 1 [] index = "C" -> 2
      [] index = "D" -> 3 [] index = "E" -> 4 [] index = "H" -> 5
      [] index = "L" -> 6 [] index = "F" -> 7 [] index = "HL" -> 8

\* the register pair an 8-bit index lies in, and whether it names the field hi
PairOf(index) ==
    CASE index \in {"A", "F"} -> "af"
      [] index \in {"B", "C"} -> "bc"
      [] index \in {"D", "E"} -> "de"
      [] index \in {"H", "L"} -> "hl"

IsHi(index) == index \in {"A", "B", "D", "H"}

\* Register8Index::set
Register8Index_set(gb, index, value) ==
    IF index = "HL" THEN write_u8(gb, gb.registers.hl, value)
    ELSE IF IsHi(index)
    THEN [gb EXCEPT !.registers[PairOf(index)] = Register_set_hi(@, value)]
    ELSE [gb EXCEPT !.registers[PairOf(index)] = Register_set_lo(@, value)]

\* Register8Index::get
Register8Index_get(gb, index) ==
    IF index = "HL" THEN read_u8(gb, gb.registers.hl)
    ELSE IF IsHi(index)
    THEN Register_hi(gb.registers[PairOf(index)])
    ELSE Register_lo(gb.registers[PairOf(index)])

\* impl Default for RegisterFile
RegisterFile_default ==
    [af |-> 0, bc |-> 0, de |-> 0, hl |-> 0, sp |-> 0, pc |-> 0, ime |-> FALSE]

\* u16 arithmetic (+=, -=): wraps, or panics in a build with overflow checks
Checked16(gb, v) ==
    IF v \in 0..65535 THEN v
    ELSE IF gb.overflow_checks THEN PANIC ELSE v % 65536

Panic(gb) == [gb EXCEPT !.panicked = TRUE]

\* Cpu::interrupt: the bit of each Interrupt
InterruptKinds == {"VBlank", "LCDStat", "TimerOverflow", "SerialTranferComplete", "Joypad"}

InterruptBit(kind) ==
    CASE kind = "VBlank" -> 0
      [] kind = "LCDStat" -> 1
      [] kind = "TimerOverflow" -> 2
      [] kind = "SerialTranferComplete" -> 3
      [] kind = "Joypad" -> 4

\* an interrupt request that stores the bit instead of OR-ing it into IF
M_interrupt(gb, kind) == write_u8(gb, IF_REG, Shl1(InterruptBit(kind)))

\* Cpu::interrupt
interrupt(gb, kind) ==
    LET interrupt_flag == read_u8(gb, IF_REG)
    IN  write_u8(gb, IF_REG, BitOr(interrupt_flag, Shl1(InterruptBit(kind))))

\* Cpu::reset: the I/O defaults, in the order of the assignments
ResetDefaults ==
    << <<P1, \hCF>>, <<SB, \h00>>, <<SC, \h7E>>, <<DIV, \hAB>>, <<TIMA, \h00>>,
       <<TMA, \h00>>, <<TAC, \hF8>>, <<IF_REG, \hE1>>, <<NR10, \h80>>, <<NR11, \hBF>>,
       <<NR12, \hF3>>, <<NR13, \hFF>>, <<NR14, \hBF>>, <<NR21, \h3F>>, <<NR22, \h00>>,
       <<NR23, \hFF>>, <<NR24, \hBF>>, <<NR30, \h7F>>, <<NR31, \hFF>>, <<NR32, \h9F>>,
       <<NR33, \hFF>>, <<NR34, \hBF>>, <<NR41, \hFF>>, <<NR42, \h00>>, <<NR43, \h00>>,
       <<NR44, \hBF>>, <<NR50, \h77>>, <<NR51, \hF3>>, <<NR52, \hF1>>, <<LCDC, \h91>>,
       <<STAT, \h85>>, <<SCY, \h00>>, <<SCX, \h00>>, <<LY, \h00>>, <<LYC, \h00>>,
       <<DMA, \hFF>>, <<BGP, \hFC>>, <<OBP0, \hFF>>, <<OBP1, \hFF>>, <<WY, \h00>>,
       <<WX, \h00>>, <<IE, \h00>> >>

RECURSIVE SetAll(_, _)
SetAll(buf, assignments) ==
    IF assignments = <<>> THEN buf
    ELSE SetAll(Put(buf, Head(assignments)[1], Head(assignments)[2]), Tail(assignments))

\* Cpu::reset.  fill_with(rand::random) leaves arbitrary bytes: memory_fill and
\* ram_fill are the byte the random fill happened to produce.
reset(gb, memory_fill, ram_fill) ==
    LET mem == Buffer(MEMORY_SIZE, memory_fill)
        f   == IF Get(mem, COMPLEMENT_CHECK) = 0 THEN \h80 ELSE \hB0
        r   == gb.registers
    IN  [gb EXCEPT
            !.banks = Buffer(gb.banks.len, ram_fill),
            !.registers =
                [ af  |-> Register_set_lo(Register_set_hi(r.af, \h01), f),
                  bc  |-> Register_set_lo(r.bc, \h13),
                  de  |-> Register_set_lo(r.de, \hD8),
                  hl  |-> Register_set_lo(Register_set_hi(r.hl, \h01), \h4D),
                  pc  |-> \h0100,
                  sp  |-> \hFFFE,
                  ime |-> FALSE ],
            !.memory = SetAll(mem, ResetDefaults)]

\* GameBoy::new: the machine, with panicked = TRUE when construction panics
GameBoy_new(image, memory_fill, ram_fill, checks) ==
    LET ch == CartridgeHeader_from(image)
        failed ==
            \/ image.len < \h150
            \/ ch.rom_size = PANIC \/ ch.ram_size = PANIC \/ ch.destination = "panic"
            \/ ch.ram_size > MAX_RAM_BANKS
            \/ ch.rom_size > MAX_ROM_BANKS
            \/ image.len # ROM_BANK_SIZE * ch.rom_size
            \/ MemoryMode_from(ch.cart_type).kind = "panic"
        tmp == [ registers       |-> RegisterFile_default,
                 memory          |-> Buffer(MEMORY_SIZE, 0),
                 memory_mode     |-> MemoryMode_from(ch.cart_type),
                 cartridge       |-> image,
                 banks           |-> Buffer(IF failed THEN 0 ELSE RAM_BANK_SIZE * ch.ram_size, 0),
                 panicked        |-> failed,
                 overflow_checks |-> checks ]
    IN  IF failed THEN tmp ELSE reset(tmp, memory_fill, ram_fill)

-----------------------------------------------------------------------------
(* instructions: fetch, decode, execute *)

\* InstructionDecoder::fetch: the machine after the fetch and the byte fetched
fetch(gb) ==
    LET pc   == gb.registers.pc
        next == Checked16(gb, pc + 1)
    IN  IF gb.panicked \/ next = PANIC
        THEN [gb |-> Panic(gb), byte |-> 0]
        ELSE LET g1 == [gb EXCEPT !.registers.pc = next]
                 v  == read_u8(g1, pc)
             IN  IF v = PANIC THEN [gb |-> Panic(g1), byte |-> 0]
                 ELSE [gb |-> g1, byte |-> v]

\* value as i8
AsI8(value) == IF value >= 128 THEN value - 256 ELSE value

\* the opcodes whose instructions the model executes
Modelled ==
    {\h00, \h10, \h76, \hF3, \hFB, \hD9}
    \cup {\h18, \h20, \h28, \h30, \h38, \hC3, \hC2, \hCA, \hD2, \hDA, \hE9}
    \cup {\hCD, \hC4, \hCC, \hD4, \hDC, \hC9, \hC0, \hC8, \hD0, \hD8}
    \cup {\hCF, \hDF, \hEF, \hFF}
    \cup (\h80..\hBF) \cup {\hC6, \hCE, \hD6, \hDE, \hE6, \hEE, \hF6, \hFE}
    \cup ((\h40..\h7F) \ {\h76}) \cup {\h06, \h0E, \h16, \h1E, \h26, \h2E, \h36, \h3E}
    \cup {\h02, \h12, \h0A, \h1A, \h22, \h2A, \h32, \h3A}
    \cup {\hC5, \hD5, \hE5, \hF5, \hC1, \hD1, \hE1, \hF1}

\* impl From<u8> for Register8Index
Register8Index_from(value) ==
    CASE value = 0 -> "B"
      [] value = 1 -> "C"
      [] value = 2 -> "D"
      [] value = 3 -> "E"
      [] value = 4 -> "H"
      [] value = 5 -> "L"
      [] value = 6 -> "HL"
      [] value = 7 -> "A"

\* impl From<u8> for Register16Index
Register16Index_from(value) ==
    CASE value = 0 -> "BC"
      [] value = 1 -> "DE"
      [] value = 2 -> "HL"
      [] value = 3 -> "SP"

\* impl From<u8> for Condition
Condition_from(value) ==
    CASE value = 0 -> "NotZero"
      [] value = 1 -> "Zero"
      [] value = 2 -> "NotCarry"
      [] value = 3 -> "Carry"

\* u8 operator >>
Shr(value, n) == value \div (2 ^ n)

\* self.fetch() as u16 | ((self.fetch() as u16) << 8): the low byte is fetched first
fetch16(gb) ==
    LET lo == fetch(gb)
        hi == fetch(lo.gb)
    IN  [gb |-> hi.gb, value |-> BitOr(lo.byte, hi.byte * 256)]

\* the instruction that decode boxes, with the machine after the operand fetches
Decoded(gb, instruction) == [gb |-> gb, instruction |-> instruction]

\* InstructionDecoder::decode, the arm 0xCB: the match on the second byte.
\* The operands are taken from `opcode`, which is still 0xCB.
decode_prefixed(gb, opcode) ==
    LET f      == fetch(gb)
        second == f.byte
        r      == Register8Index_from(BitAnd(opcode, 7))
        bit    == Shr(BitAnd(opcode, 7), 3)
    IN  IF f.gb.panicked THEN Decoded(f.gb, [op |-> "panic"])
        ELSE
        CASE second \in \h00..\h07 -> Decoded(f.gb, [op |-> "RotateLeftCarry", src |-> r])
          [] second \in \h08..\h0E -> Decoded(f.gb, [op |-> "RotateRightCarry", src |-> r])
          [] second \in \h10..\h17 -> Decoded(f.gb, [op |-> "RotateLeft", src |-> r])
          [] second \in \h18..\h1F -> Decoded(f.gb, [op |-> "RotateRight", src |-> r])
          [] second \in \h20..\h27 -> Decoded(f.gb, [op |-> "ShiftLeft", src |-> r])
          [] second \in \h28..\h2F -> Decoded(f.gb, [op |-> "ShiftRight", src |-> r])
          [] second \in \h30..\h37 -> Decoded(f.gb, [op |-> "Swap", src |-> r])
          [] second \in \h38..\h3F -> Decoded(f.gb, [op |-> "ShiftRightLogically", src |-> r])
          [] second \in \h40..\h7F -> Decoded(f.gb, [op |-> "BitTest", bit |-> bit, src |-> r])
          [] second \in \h80..\hBF -> Decoded(f.gb, [op |-> "BitReset", bit |-> bit, src |-> r])
          [] second \in \hC0..\hFF -> Decoded(f.gb, [op |-> "BitSet", bit |-> bit, src |-> r])
          [] OTHER -> Decoded(Panic(f.gb), [op |-> "panic"])

\* InstructionDecoder::decode: the machine after the operand fetches, and the
\* instruction; the last arm panics
decode(gb, opcode) ==
    LET r8lo == Register8Index_from(BitAnd(opcode, 7))
        r8hi == Register8Index_from(BitAnd(Shr(opcode, 3), 7))
        r16  == Register16Index_from(BitAnd(Shr(opcode, 4), 3))
        cond == Some(Condition_from(BitAnd(Shr(opcode, 3), 3)))
        n8   == fetch(gb)
        n16  == fetch16(gb)
    IN
    CASE opcode = \h00 -> Decoded(gb, [op |-> "Nop"])
      [] opcode = \h10 -> Decoded(gb, [op |-> "Stop"])
      [] opcode = \h76 -> Decoded(gb, [op |-> "Halt"])
      [] opcode = \hF3 -> Decoded(gb, [op |-> "Di"])
      [] opcode = \hFB -> Decoded(gb, [op |-> "Ei"])
      [] opcode = \h18 ->
            Decoded(n8.gb, [op |-> "JumpRelative", cond |-> None, value |-> AsI8(n8.byte)])
      [] opcode \in {\h20, \h30, \h28, \h38} ->
            Decoded(n8.gb, [op |-> "JumpRelative", cond |-> cond, value |-> AsI8(n8.byte)])
      [] opcode = \hC3 ->
            Decoded(n16.gb, [op |-> "JumpImmediate", cond |-> None, value |-> n16.value])
      [] opcode \in {\hC2, \hD2, \hCA, \hDA} ->
            Decoded(n16.gb, [op |-> "JumpImmediate", cond |-> cond, value |-> n16.value])
      [] opcode = \hE9 -> Decoded(gb, [op |-> "JumpInternal"])
      [] opcode = \hCD ->
            Decoded(n16.gb, [op |-> "Call", cond |-> None, value |-> n16.value])
      [] opcode \in {\hC4, \hD4, \hCC, \hDC} ->
            Decoded(n16.gb, [op |-> "Call", cond |-> cond, value |-> n16.value])
      [] opcode = \hC9 -> Decoded(gb, [op |-> "RetInternal", cond |-> None])
      [] opcode \in {\hC0, \hD0, \hC8, \hD8} ->
            Decoded(gb, [op |-> "RetInternal", cond |-> cond])
      [] opcode = \hD9 -> Decoded(gb, [op |-> "RetEnableInterrupts"])
      [] opcode \in {\hCF, \hDF, \hEF, \hFF} ->
            Decoded(gb, [op |-> "Rst", vector |-> BitOr(BitAnd(opcode, \h30), \h08)])
      [] opcode \in \h80..\h87 -> Decoded(gb, [op |-> "Add", form |-> "Internal", src |-> r8lo])
      [] opcode = \hC6 ->
            Decoded(n8.gb, [op |-> "Add", form |-> "Immediate", value |-> n8.byte])
      [] opcode \in {\h09, \h19, \h29, \h39} ->
            Decoded(gb, [op |-> "Add", form |-> "Internal16", src |-> r16])
      [] opcode = \hE8 ->
            Decoded(n8.gb, [op |-> "Add", form |-> "StackPointer", value |-> AsI8(n8.byte)])
      [] opcode \in \h88..\h8F -> Decoded(gb, [op |-> "Adc", form |-> "Internal", src |-> r8lo])
      [] opcode = \hCE ->
            Decoded(n8.gb, [op |-> "Adc", form |-> "Immediate", value |-> n8.byte])
      [] opcode \in \h90..\h97 -> Decoded(gb, [op |-> "Sub", form |-> "Internal", src |-> r8lo])
      [] opcode = \hD6 ->
            Decoded(n8.gb, [op |-> "Sub", form |-> "Immediate", value |-> n8.byte])
      [] opcode \in \h98..\h9F -> Decoded(gb, [op |-> "Sbc", form |-> "Internal", src |-> r8lo])
      [] opcode = \hDE ->
            Decoded(n8.gb, [op |-> "Sbc", form |-> "Immediate", value |-> n8.byte])
      [] opcode \in \hA0..\hA7 -> Decoded(gb, [op |-> "And", form |-> "Internal", src |-> r8lo])
      [] opcode = \hE6 ->
            Decoded(n8.gb, [op |-> "And", form |-> "Immediate", value |-> n8.byte])
      [] opcode \in \hA8..\hAF -> Decoded(gb, [op |-> "Xor", form |-> "Internal", src |-> r8lo])
      [] opcode = \hEE ->
            Decoded(n8.gb, [op |-> "Xor", form |-> "Immediate", value |-> n8.byte])
      [] opcode \in \hB0..\hB7 -> Decoded(gb, [op |-> "Or", form |-> "Internal", src |-> r8lo])
      [] opcode = \hF6 ->
            Decoded(n8.gb, [op |-> "Or", form |-> "Immediate", value |-> n8.byte])
      [] opcode \in \hB8..\hBF -> Decoded(gb, [op |-> "Cp", form |-> "Internal", src |-> r8lo])
      [] opcode = \hFE ->
            Decoded(n8.gb, [op |-> "Cp", form |-> "Immediate", value |-> n8.byte])
      [] opcode \in {\h04, \h0C, \h14, \h1C, \h24, \h2C, \h34, \h3C} ->
            Decoded(gb, [op |-> "Inc", form |-> "Internal", src |-> r8hi])
      [] opcode \in {\h03, \h13, \h23, \h33} ->
            Decoded(gb, [op |-> "Inc", form |-> "Internal16", src |-> r16])
      [] opcode \in {\h05, \h0D, \h15, \h1D, \h25, \h2D, \h35, \h3D} ->
            Decoded(gb, [op |-> "Dec", form |-> "Internal", src |-> r8hi])
      [] opcode \in {\h0B, \h1B, \h2B, \h3B} ->
            Decoded(gb, [op |-> "Dec", form |-> "Internal16", src |-> r16])
      [] opcode = \h27 -> Decoded(gb, [op |-> "Daa"])
      [] opcode = \h2F -> Decoded(gb, [op |-> "Cpl"])
      [] opcode = \h37 -> Decoded(gb, [op |-> "Scf"])
      [] opcode = \h3F -> Decoded(gb, [op |-> "Ccf"])
      [] opcode \in \h40..\h6F \/ opcode \in \h70..\h75 \/ opcode \in \h77..\h7F ->
            Decoded(gb, [op |-> "Load8", form |-> "Internal", src |-> r8lo, dst |-> r8hi])
      [] opcode \in {\h06, \h0E, \h16, \h1E, \h26, \h2E, \h36, \h3E} ->
            Decoded(n8.gb, [op |-> "Load8", form |-> "Immediate", dst |-> r8hi,
                            value |-> n8.byte])
      [] opcode = \hE2 -> Decoded(gb, [op |-> "Load8", form |-> "CPointer", dir |-> "Into"])
      [] opcode = \hF2 -> Decoded(gb, [op |-> "Load8", form |-> "CPointer", dir |-> "From"])
      [] opcode = \hE0 ->
            Decoded(n8.gb, [op |-> "Load8", form |-> "ImmediatePointer", value |-> n8.byte,
                            dir |-> "Into"])
      [] opcode = \hF0 ->
            Decoded(n8.gb, [op |-> "Load8", form |-> "ImmediatePointer", value |-> n8.byte,
                            dir |-> "From"])
      [] opcode \in {\h02, \h12} ->
            Decoded(gb, [op |-> "Load8", form |-> "InternalPointer", src |-> r16,
                         dir |-> "Into", step |-> None])
      [] opcode \in {\h0A, \h1A} ->
            Decoded(gb, [op |-> "Load8", form |-> "InternalPointer", src |-> r16,
                         dir |-> "From", step |-> None])
      [] opcode = \h22 ->
            Decoded(gb, [op |-> "Load8", form |-> "InternalPointer", src |-> r16,
                         dir |-> "Into", step |-> Some(TRUE)])
      [] opcode = \h2A ->
            Decoded(gb, [op |-> "Load8", form |-> "InternalPointer", src |-> r16,
                         dir |-> "From", step |-> Some(TRUE)])
      [] opcode = \h32 ->
            Decoded(gb, [op |-> "Load8", form |-> "InternalPointer", src |-> r16,
                         dir |-> "Into", step |-> Some(FALSE)])
      [] opcode = \h3A ->
            Decoded(gb, [op |-> "Load8", form |-> "InternalPointer", src |-> r16,
                         dir |-> "From", step |-> Some(FALSE)])
      [] opcode = \hEA ->
            Decoded(n16.gb, [op |-> "Load8", form |-> "ImmediateMemory", value |-> n16.value,
                             dir |-> "Into"])
      [] opcode = \hFA ->
            Decoded(n16.gb, [op |-> "Load8", form |-> "ImmediateMemory", value |-> n16.value,
                             dir |-> "From"])
      [] opcode \in {\h01, \h11, \h21, \h31} ->
            Decoded(n16.gb, [op |-> "Load16", form |-> "Immediate", dst |-> r16,
                             value |-> n16.value])
      [] opcode = \hF9 -> Decoded(gb, [op |-> "Load16", form |-> "StackHL", offset |-> None])
      [] opcode = \hF8 ->
            Decoded(n8.gb, [op |-> "Load16", form |-> "StackHL",
                            offset |-> Some(AsI8(n8.byte))])
      [] opcode = \h08 ->
            Decoded(n16.gb, [op |-> "Load16", form |-> "StackToMemory", value |-> n16.value])
      [] opcode \in {\hC5, \hD5, \hE5, \hF5} ->
            Decoded(gb, [op |-> "Load16", form |-> "Push", src |-> r16])
      [] opcode \in {\hC1, \hD1, \hE1, \hF1} ->
            Decoded(gb, [op |-> "Load16", form |-> "Pop", dst |-> r16])
      [] opcode = \hCB -> decode_prefixed(gb, opcode)
      [] OTHER -> Decoded(Panic(gb), [op |-> "panic"])

\* Ret::EnableInterrupts
execute_reti(gb) ==
    LET g1 == [gb EXCEPT !.registers.ime = TRUE]
        sp == g1.registers.sp
        pc == read_u16(g1, sp)
        sp2 == Checked16(g1, sp + 2)
    IN  IF pc = PANIC \/ sp2 = PANIC THEN [gb |-> Panic(g1), cycles |-> 0]
        ELSE [gb |-> [g1 EXCEPT !.registers.sp = sp2, !.registers.pc = pc], cycles |-> 16]

\* a call that pushes the low byte of the return address first
M_execute_call(gb, target) ==
    LET pc == gb.registers.pc
        sp == gb.registers.sp
    IN  IF sp < 2 THEN [gb |-> Panic(gb), cycles |-> 0]
        ELSE [gb |-> [write_u8(write_u8(gb, sp - 1, BitAnd(pc, \hFF)), sp - 2, pc \div 256)
                         EXCEPT !.registers.sp = sp - 2, !.registers.pc = target],
              cycles |-> 24]

\* Call::execute, the unconditional call: `sp as usize - 1` cannot go below 0
execute_call(gb, target) ==
    LET pc == gb.registers.pc
        sp == gb.registers.sp
    IN  IF sp < 1 THEN [gb |-> Panic(gb), cycles |-> 0]
        ELSE LET g1 == write_u8(gb, sp - 1, pc \div 256) IN
             IF g1.panicked \/ sp < 2 THEN [gb |-> Panic(g1), cycles |-> 0]
             ELSE LET g2 == write_u8(g1, sp - 2, BitAnd(pc, \hFF)) IN
                  IF g2.panicked THEN [gb |-> g2, cycles |-> 0]
                  ELSE [gb |-> [g2 EXCEPT !.registers.sp = sp - 2, !.registers.pc = target],
                        cycles |-> 24]

\* u8 operator ^
BitXor(a, b) == a + b - 2 * BitAnd(a, b)

\* enum Flag: the bit of F that set_flag and test_flag address
FlagMask(flag) ==
    CASE flag = "Zero" -> 128
      [] flag = "Subtract" -> 64
      [] flag = "HalfCarry" -> 32
      [] flag = "Carry" -> 16

\* Registers::set_flag: af.lo |= mask, or af.lo &= !mask
set_flag(gb, flag, value) ==
    LET lo == Register_lo(gb.registers.af) IN
    [gb EXCEPT !.registers.af =
        Register_set_lo(@, IF value THEN BitOr(lo, FlagMask(flag))
                           ELSE BitAnd(lo, BitNot8(FlagMask(flag))))]

\* Registers::test_flag
test_flag(gb, flag) == BitAnd(Register_lo(gb.registers.af), FlagMask(flag)) # 0

\* impl From<Condition> for Flag
Flag_from(val) ==
    CASE val = "Zero" -> "Zero"
      [] val = "NotZero" -> "Zero"
      [] val = "Carry" -> "Carry"
      [] val = "NotCarry" -> "Carry"

\* the early return of a conditional: cond.is_some() && !cpu.test_flag(cond.unwrap().into())
Skipped(gb, cond) == cond # None /\ ~test_flag(gb, Flag_from(cond[1]))

\* an ALU instruction that reports 4 cycles for every register operand, (HL) included
M_InternalCycles(index) == 4

\* (*src == Register8Index::HL) as usize * 8 + (*src != Register8Index::HL) as usize * 4
InternalCycles(index) == IF index = "HL" THEN 8 ELSE 4

\* what execute returns: the machine and the cycles (none when it panicked)
Reported(gb, cycles) == [gb |-> gb, cycles |-> IF gb.panicked THEN 0 ELSE cycles]

\* the 8-bit arithmetic of Add, Adc, Sub, Sbc, And, Xor, Or and Cp on the
\* operand `value`: Register8Index::A.get, A.set(result) (not for Cp), then
\* the four set_flag calls
alu8(gb, op, value) ==
    LET a      == Register_hi(gb.registers.af)
        carry  == IF op \in {"Adc", "Sbc"} /\ test_flag(gb, "Carry") THEN 1 ELSE 0
        \* value + carry, a u8 addition
        sum    == value + carry
        v      == sum % 256
        result == CASE op \in {"Add", "Adc"} -> (a + v) % 256
                    [] op \in {"Sub", "Sbc", "Cp"} -> (a + 256 - v) % 256
                    [] op = "And" -> BitAnd(a, value)
                    [] op = "Xor" -> BitXor(a, value)
                    [] op = "Or" -> BitOr(a, value)
        c      == CASE op \in {"Add", "Adc"} -> a + v > 255
                    [] op \in {"Sub", "Sbc", "Cp"} -> a < v
                    [] OTHER -> FALSE
        h      == CASE op \in {"Add", "Adc"} -> BitAnd(a, 15) + BitAnd(value, 15) + carry > 15
                    [] op \in {"Sub", "Sbc", "Cp"} -> BitAnd(a, 15) < BitAnd(value, 15) + carry
                    [] op = "And" -> TRUE
                    [] OTHER -> FALSE
        n      == op \in {"Sub", "Sbc", "Cp"}
        g1     == IF op = "Cp" THEN gb
                  ELSE [gb EXCEPT !.registers.af = Register_set_hi(@, result)]
    IN  IF sum > 255 /\ gb.overflow_checks THEN Panic(gb)
        ELSE set_flag(set_flag(set_flag(set_flag(g1, "Subtract", n), "Zero", result = 0),
                               "Carry", c), "HalfCarry", h)

\* the arm Internal(src), once `let value = src.get(cpu)` was evaluated
alu8_internal(gb, op, src, value) ==
    IF value = PANIC THEN Reported(Panic(gb), 0)
    ELSE Reported(alu8(gb, op, value), InternalCycles(src))

\* Adc, Add, And, Cp, Or, Sbc, Sub, Xor: the arms Internal(src) and Immediate(value)
execute_alu8(gb, instruction) ==
    IF instruction.form = "Internal"
    THEN alu8_internal(gb, instruction.op, instruction.src,
                       Register8Index_get(gb, instruction.src))
    ELSE Reported(alu8(gb, instruction.op, instruction.value), 8)

\* Load8::Internal and Load8::Immediate: dst.set(cpu, value) and the cycles
load8_set(gb, dst, value, cycles) ==
    IF value = PANIC THEN Reported(Panic(gb), 0)
    ELSE Reported(Register8Index_set(gb, dst, value), cycles)

\* Load8::execute, the arms Internal(src, dst) and Immediate(dst, value)
execute_load8(gb, instruction) ==
    IF instruction.form = "Internal"
    THEN load8_set(gb, instruction.dst, Register8Index_get(gb, instruction.src),
                   IF instruction.dst = "HL" THEN 8 ELSE 4)
    ELSE load8_set(gb, instruction.dst, instruction.value,
                   IF instruction.dst = "HL" THEN 12 ELSE 8)

\* Jump::execute
execute_jump(gb, instruction) ==
    CASE instruction.op = "JumpInternal" ->
            [gb |-> [gb EXCEPT !.registers.pc = gb.registers.hl], cycles |-> 4]
      [] instruction.op = "JumpImmediate" ->
            IF Skipped(gb, instruction.cond) THEN [gb |-> gb, cycles |-> 12]
            ELSE [gb |-> [gb EXCEPT !.registers.pc = instruction.value], cycles |-> 16]
      [] instruction.op = "JumpRelative" ->
            IF Skipped(gb, instruction.cond) THEN [gb |-> gb, cycles |-> 8]
            ELSE [gb |-> [gb EXCEPT !.registers.pc = (@ + instruction.value) % 65536],
                  cycles |-> 12]

\* Ret::Internal after `let pc = cpu.read_u16(sp as usize)`: sp += 2, pc = pc
ret_pop(gb, cond, pc, sp2) ==
    IF pc = PANIC \/ sp2 = PANIC THEN Reported(Panic(gb), 0)
    ELSE [gb |-> [gb EXCEPT !.registers.sp = sp2, !.registers.pc = pc],
          cycles |-> IF cond # None THEN 20 ELSE 16]

\* Ret::Internal
execute_ret(gb, cond) ==
    IF Skipped(gb, cond) THEN [gb |-> gb, cycles |-> 8]
    ELSE ret_pop(gb, cond, read_u16(gb, gb.registers.sp), Checked16(gb, gb.registers.sp + 2))

\* Rst::execute after the two write_u8 calls: sp -= 2, pc = vector
rst_jump(gb, sp, vector) ==
    IF gb.panicked THEN Reported(gb, 0)
    ELSE [gb |-> [gb EXCEPT !.registers.sp = sp - 2, !.registers.pc = vector], cycles |-> 16]

\* Rst::execute after the first write_u8: `sp as usize - 2` cannot go below 0
rst_low(gb, sp, pc, vector) ==
    IF gb.panicked \/ sp < 2 THEN Reported(Panic(gb), 0)
    ELSE rst_jump(write_u8(gb, sp - 2, BitAnd(pc, \hFF)), sp, vector)

\* Rst::execute: `sp as usize - 1` cannot go below 0
execute_rst(gb, vector) ==
    IF gb.registers.sp < 1 THEN Reported(Panic(gb), 0)
    ELSE rst_low(write_u8(gb, gb.registers.sp - 1, gb.registers.pc \div 256),
                 gb.registers.sp, gb.registers.pc, vector)

\* the field of the register file behind a Register16Index
Register16Field(index) ==
    CASE index = "AF" -> "af"
      [] index = "BC" -> "bc"
      [] index = "DE" -> "de"
      [] index = "HL" -> "hl"
      [] index = "SP" -> "sp"
      [] index = "PC" -> "pc"

\* Register16Index::get
Register16Index_get(gb, index) == gb.registers[Register16Field(index)]

\* Register16Index::set
Register16Index_set(gb, index, value) ==
    [gb EXCEPT !.registers[Register16Field(index)] = value]

\* Load16::Push, the word written: for AF the upper byte and the four flags
PushValue(gb, src) ==
    IF src = "AF"
    THEN (gb.registers.af \div 256) * 256 + BitAnd(Register_lo(gb.registers.af), \hF0)
    ELSE Register16Index_get(gb, src)

\* Load16::Push after write_u16: sp -= 2
push_done(gb, sp) ==
    IF gb.panicked THEN Reported(gb, 0)
    ELSE Reported([gb EXCEPT !.registers.sp = sp - 2], 16)

\* Load16::Push: `sp as usize - 2` cannot go below 0
execute_push(gb, src) ==
    IF gb.registers.sp < 2 THEN Reported(Panic(gb), 0)
    ELSE push_done(write_u16(gb, gb.registers.sp - 2, PushValue(gb, src)), gb.registers.sp)

\* Load16::Pop after dst.set: sp += 2
pop_done(gb, sp2) ==
    IF sp2 = PANIC THEN Reported(Panic(gb), 0)
    ELSE Reported([gb EXCEPT !.registers.sp = sp2], 12)

\* Load16::Pop after read_u16: dst.set(cpu, value), and the stack pointer it
\* leaves.  (For AF the four set_flag calls before it store each flag's own bit.)
pop_set(gb, dst, value) ==
    IF value = PANIC THEN Reported(Panic(gb), 0)
    ELSE pop_done(Register16Index_set(gb, dst, value),
                  Checked16(gb, Register16Index_set(gb, dst, value).registers.sp + 2))

\* Load16::Pop
execute_pop(gb, dst) == pop_set(gb, dst, read_u16(gb, gb.registers.sp))

\* Load8::InternalPointer after the transfer: reg.set(addr.wrapping_add(1)) or
\* reg.set(addr.wrapping_sub(1)) when incdec is Some
pointer_step(gb, reg, addr, step) ==
    IF gb.panicked THEN Reported(gb, 0)
    ELSE IF step = None THEN Reported(gb, 8)
    ELSE Reported(Register16Index_set(gb, reg,
                      (IF step[1] THEN addr + 1 ELSE addr + 65535) % 65536), 8)

\* Load8::InternalPointer, LoadDirection::From: af.hi = value
pointer_from(gb, reg, addr, step, value) ==
    IF value = PANIC THEN Reported(Panic(gb), 0)
    ELSE pointer_step([gb EXCEPT !.registers.af = Register_set_hi(@, value)], reg, addr, step)

\* Load8::InternalPointer at addr = reg.get(cpu)
pointer_at(gb, instruction, addr) ==
    IF instruction.dir = "From"
    THEN pointer_from(gb, instruction.src, addr, instruction.step, read_u8(gb, addr))
    ELSE pointer_step(write_u8(gb, addr, Register_hi(gb.registers.af)),
                      instruction.src, addr, instruction.step)

\* Load8::execute, the arm InternalPointer(reg, dir, incdec)
execute_pointer(gb, instruction) ==
    pointer_at(gb, instruction, Register16Index_get(gb, instruction.src))

\* Instruction::execute: the machine after the instruction and the cycles it reports
execute(gb, instruction) ==
    IF gb.panicked THEN [gb |-> gb, cycles |-> 0]
    ELSE
    CASE instruction.op = "Nop" -> [gb |-> gb, cycles |-> 4]
      [] instruction.op = "Di" -> [gb |-> [gb EXCEPT !.registers.ime = FALSE], cycles |-> 4]
      [] instruction.op = "Ei" -> [gb |-> [gb EXCEPT !.registers.ime = TRUE], cycles |-> 4]
      [] instruction.op \in {"Halt", "Stop"} -> [gb |-> Panic(gb), cycles |-> 0]
      [] instruction.op \in {"JumpInternal", "JumpImmediate", "JumpRelative"} ->
            execute_jump(gb, instruction)
      [] instruction.op = "RetEnableInterrupts" -> execute_reti(gb)
      [] instruction.op = "RetInternal" -> execute_ret(gb, instruction.cond)
      [] instruction.op = "Call" ->
            IF Skipped(gb, instruction.cond) THEN [gb |-> gb, cycles |-> 12]
            ELSE execute_call(gb, instruction.value)
      [] instruction.op = "Rst" -> execute_rst(gb, instruction.vector)
      [] instruction.op \in {"Add", "Adc", "Sub", "Sbc", "And", "Xor", "Or", "Cp"}
            /\ instruction.form \in {"Internal", "Immediate"} ->
            execute_alu8(gb, instruction)
      [] instruction.op = "Load8" /\ instruction.form \in {"Internal", "Immediate"} ->
            execute_load8(gb, instruction)
      [] instruction.op = "Load8" /\ instruction.form = "InternalPointer" ->
            execute_pointer(gb, instruction)
      [] instruction.op = "Load16" /\ instruction.form = "Push" ->
            execute_push(gb, instruction.src)
      [] instruction.op = "Load16" /\ instruction.form = "Pop" ->
            execute_pop(gb, instruction.dst)

-----------------------------------------------------------------------------
(* Cpu::tick *)

\* "Timers", the TIMA loop: `ticks` more iterations
RECURSIVE timer_loop(_, _)
timer_loop(gb, ticks) ==
    IF ticks = 0 \/ gb.panicked THEN gb
    ELSE LET timer_counter == read_u8(gb, TIMA) IN
         IF timer_counter = 255
         THEN timer_loop(
                interrupt(write_u8(gb, TIMA, read_u8(gb, TMA)), "TimerOverflow"),
                ticks - 1)
         ELSE timer_loop(write_u8(gb, TIMA, (timer_counter + 1) % 256), ticks - 1)

\* T-cycles per timer tick: CPU_CLOCK_SPEED / timer_freq
TimerPeriod(timer_ctrl) ==
    CASE BitAnd(timer_ctrl, 3) = 0 -> 1024    \* 4096 Hz
      [] BitAnd(timer_ctrl, 3) = 1 -> 16      \* 262144 Hz
      [] BitAnd(timer_ctrl, 3) = 2 -> 64      \* 65536 Hz
      [] BitAnd(timer_ctrl, 3) = 3 -> 256     \* 16384 Hz

\* "Timers": DIV, then TIMA.  delta is delta_time in T-cycles, so that
\* (delta_time * 16384.0) as u64 is delta \div 256.
tick_timers(gb, delta) ==
    LET divider_counter == read_u8(gb, DIV)
        divider_ticks   == delta \div 256
        g1 == IF divider_ticks > 0
              THEN SetMemory(gb, DIV, (divider_counter + 1) % 256)
              ELSE gb
        timer_ctrl   == read_u8(g1, TAC)
        timer_enable == BitAnd(timer_ctrl, 4) # 0
    IN  IF timer_enable
        THEN timer_loop(g1, delta \div TimerPeriod(timer_ctrl))
        ELSE g1

\* the vector of interrupt bit i
Vector(i) ==
    CASE i = 0 -> \h40
      [] i = 1 -> \h48
      [] i = 2 -> \h50
      [] i = 3 -> \h58
      [] i = 4 -> \h60

\* "Interrupts": the body of the loop for bit i ("Service i-th interrupt")
service(gb, i, interrupt_flag) ==
    LET g1 == [gb EXCEPT !.registers.ime = FALSE]
        g2 == write_u8(g1, IF_REG, BitAnd(interrupt_flag, BitNot8(Shl1(i))))
        sp == Checked16(g2, g2.registers.sp - 2)
    IN  IF g2.panicked \/ sp = PANIC THEN Panic(g2)
        ELSE LET g3 == write_u16([g2 EXCEPT !.registers.sp = sp], sp, g2.registers.pc)
             IN  IF g3.panicked THEN g3 ELSE [g3 EXCEPT !.registers.pc = Vector(i)]

\* "Interrupts": for i in (0..5).rev(), from bit i down
RECURSIVE service_loop(_, _, _, _)
service_loop(gb, i, enabled_interrupts, interrupt_flag) ==
    IF i < 0 \/ gb.panicked THEN gb
    ELSE service_loop(
            IF TestBit(enabled_interrupts, i) THEN service(gb, i, interrupt_flag) ELSE gb,
            i - 1, enabled_interrupts, interrupt_flag)

\* a dispatch that does not look at IME
M_tick_interrupts(gb) ==
    LET interrupt_flag   == read_u8(gb, IF_REG)
        interrupt_enable == read_u8(gb, IE)
    IN  IF interrupt_flag > 0
        THEN service_loop(gb, 4, BitAnd(interrupt_flag, interrupt_enable), interrupt_flag)
        ELSE gb

\* "Interrupts"
tick_interrupts(gb) ==
    IF gb.registers.ime
    THEN LET interrupt_flag   == read_u8(gb, IF_REG)
             interrupt_enable == read_u8(gb, IE)
         IN  IF interrupt_flag > 0
             THEN service_loop(gb, 4, BitAnd(interrupt_flag, interrupt_enable), interrupt_flag)
             ELSE gb
    ELSE gb

-----------------------------------------------------------------------------
(* The inputs: ROM images, and what the random fill of reset produced *)

\* header bytes <<cartridge type, ROM size code, RAM size code>>
Cartridges ==
    { <<\h00, \h00, \h02>>,     \* ROM only, 2 ROM banks, 1 RAM bank
      <<\h03, \h01, \h03>>,     \* MBC1+RAM+BATTERY, 4 ROM banks, 4 RAM banks
      <<\h06, \h01, \h02>>,     \* MBC2+BATTERY, 4 ROM banks, 1 RAM bank
      <<\h13, \h01, \h03>>,     \* MBC3+RAM+BATTERY, 4 ROM banks, 4 RAM banks
      <<\h1B, \h01, \h03>> }    \* MBC5+RAM+BATTERY, 4 ROM banks, 4 RAM banks

\* the two instructions at the entry point 0x0100; JR -4 follows them
Programs ==
    { <<\hFB, \h00>>,           \* EI;  NOP
      <<\hFB, \hF3>>,           \* EI;  DI
      <<\hFB, \hD9>> }          \* EI;  RETI

RomFill == {\h76}
MemoryFills == {\h03}
RamFills == {\h3C}

\* A ROM image: the header, the program, RETI at the five interrupt vectors,
\* and two marked bytes in every switchable bank.
MkImage(cart, program) ==
    LET nbanks == RomSize_from(cart[2])
        len    == ROM_BANK_SIZE * nbanks
        fill   == CHOOSE b \in RomFill : TRUE
    IN  SetAll(Buffer(len, fill),
            << <<CARTRIDGE_TYPE, cart[1]>>, <<ROM_SIZE, cart[2]>>, <<RAM_SIZE, cart[3]>>,
               <<DESTINATION_CODE, \h01>>,
               <<\h0100, program[1]>>, <<\h0101, program[2]>>,
               <<\h0102, \h18>>, <<\h0103, \hFC>>,
               <<\h40, \hD9>>, <<\h48, \hD9>>, <<\h50, \hD9>>, <<\h58, \hD9>>,
               <<\h60, \hD9>> >>
            \o [b \in 1..(nbanks - 1) |-> <<b * ROM_BANK_SIZE, 16 + b>>]
            \o [b \in 1..(nbanks - 1) |-> <<b * ROM_BANK_SIZE + \h3FFF, 32 + b>>])

\* A ROM image whose program is a call: CALL 0x0150 at the entry point, JR -5
\* after it, RETI at 0x0150.
CallImage(cart) ==
    SetAll(MkImage(cart, <<\hCD, \h50>>),
           << <<\h0102, \h01>>, <<\h0103, \h18>>, <<\h0104, \hFB>>, <<\h0150, \hD9>> >>)

\* tick's delta_time, in T-cycles (multiples of 1/4194304 s)
Deltas == {0, 16}

\* the addresses and values of the host's write_u8 calls
Addrs == {\h0000, \hFF0F, \hFF40, \hFFFF}
Values == {\h00, \h03, \h1F}
Addrs16 == {\h3FFF}
Values16 == {\h0103}

\* the bus calls of SpecBus
BusAddrs == {\h0000, \h2000, \h3000, \h4000, \h6000, \hA000, \hC000}
BusValues == {\h00, \h03, \h1A, \h20, \h83}
BusAddrs16 == {\h1FFF, \hBFFF, \hFFFF}
BusValues16 == {\h0A00, \h000A}
\* what the second run of a pair writes in 0xA000-0xBFFF
TwinValues == {\h5A}
TwinValues16 == {\h5AA5}

\* the write_u8 calls of SpecIo: work RAM, its echo, TIMA and TAC
IoAddrs == {\hC000, \hDDFF, \hE000, \hFDFF, TIMA, TAC}
IoValues == {\h00, \h05, \hFF}

-----------------------------------------------------------------------------
(* State machine *)

Machine ==
    [ memory_mode     |-> memory_mode,
      registers       |-> registers,
      memory          |-> memory,
      cartridge       |-> cartridge,
      banks           |-> banks,
      panicked        |-> panicked,
      overflow_checks |-> overflow_checks ]

Install(gb) ==
    LET g == gb IN
    /\ memory_mode' = g.memory_mode
    /\ registers' = g.registers
    /\ memory' = g.memory
    /\ cartridge' = g.cartridge
    /\ banks' = g.banks
    /\ panicked' = g.panicked
    /\ overflow_checks' = g.overflow_checks

Step(op, a, v) == [op |-> op, a |-> a, v |-> v]

\* the state after GameBoy::new(image) returned
BootFrom(image, memory_fill, ram_fill, checks) ==
    LET gb == GameBoy_new(image, memory_fill, ram_fill, checks)
    IN  /\ ~gb.panicked
        /\ memory_mode = gb.memory_mode
        /\ registers = gb.registers
        /\ memory = gb.memory
        /\ cartridge = gb.cartridge
        /\ banks = gb.banks
        /\ panicked = FALSE
        /\ overflow_checks = checks
        /\ phase = "idle"
        /\ delta_time = 0
        /\ cycles_to_execute = 0
        /\ cycles_count = 0
        /\ ops = 0
        /\ h_rom = image
        /\ h_armed = FALSE
        /\ h_enable = None
        /\ h_twin = gb.banks
        /\ h_tac = None
        /\ h_tick = [deltas |-> 0, divs |-> 0, instructions |-> 0, single |-> TRUE]
        /\ h_last = Step("new", 0, 0)

Boot(carts, programs, profiles) ==
    \E cart \in carts, program \in programs, mf \in MemoryFills, rf \in RamFills,
       checks \in profiles :
        BootFrom(MkImage(cart, program), mf, rf, checks)

Init == Boot(Cartridges, Programs, BOOLEAN)

Idle == phase = "idle" /\ ~panicked /\ ops < MaxOps

\* the value of the latest write to 0x0000-0x1FFF, after one more write_u8
EnableAfter(h, address, value) ==
    IF address \in \h0000..\h1FFF THEN Some(value) ELSE h

\* the value of the latest write to TAC, after one more write_u8
TacAfter(h, address, value) == IF address = TAC THEN Some(value) ELSE h

\* the second run of the pair: the same machine with its own external RAM
Twin == [Machine EXCEPT !.banks = h_twin]

\* the value the second run writes: another one in 0xA000-0xBFFF, the same elsewhere
TwinValue(address, value, other) ==
    IF address \in \hA000..\hBFFF THEN other ELSE value

\* the host calls write_u8; the second run writes `other` in 0xA000-0xBFFF
Write8Twin(address, value, other) ==
    /\ Install(write_u8(Machine, address, value))
    /\ h_last' = Step("write_u8", address, value)
    /\ h_enable' = EnableAfter(h_enable, address, value)
    /\ h_twin' = write_u8(Twin, address, TwinValue(address, value, other)).banks
    /\ h_tac' = TacAfter(h_tac, address, value)
    /\ ops' = ops + 1
    /\ UNCHANGED <<phase, delta_time, cycles_to_execute, cycles_count, h_rom, h_armed,
                   h_tick>>

\* the host calls write_u16; the second run writes the bytes of `other` in
\* 0xA000-0xBFFF
Write16Twin(address, value, other) ==
    LET lower == value % 256
        upper == value \div 256
        t1 == write_u8(Twin, address, TwinValue(address, lower, other % 256))
        t2 == write_u8(t1, address + 1, TwinValue(address + 1, upper, other \div 256))
    IN  /\ Install(write_u16(Machine, address, value))
        /\ h_last' = Step("write_u16", address, value)
        /\ h_enable' = EnableAfter(EnableAfter(h_enable, address, lower), address + 1, upper)
        /\ h_twin' = t2.banks
        /\ h_tac' = TacAfter(TacAfter(h_tac, address, lower), address + 1, upper)
        /\ ops' = ops + 1
        /\ UNCHANGED <<phase, delta_time, cycles_to_execute, cycles_count, h_rom, h_armed,
                       h_tick>>

\* the host calls write_u8
Write8(address, value) == Idle /\ Write8Twin(address, value, value)

\* the host calls write_u16
Write16(address, value) == Idle /\ Write16Twin(address, value, value)

\* the host calls Cpu::interrupt
RaiseInterrupt(kind) ==
    /\ Idle
    /\ Install(interrupt(Machine, kind))
    /\ ops' = ops + 1
    /\ h_last' = Step("interrupt", InterruptBit(kind), 0)
    /\ UNCHANGED <<phase, delta_time, cycles_to_execute, cycles_count,
                   h_rom, h_armed, h_enable, h_twin, h_tac, h_tick>>

\* the host calls Cpu::tick(delta): cycles_to_execute and cycles_count are set
TickCall(delta) ==
    /\ phase = "idle" /\ ~panicked
    /\ phase' = "loop"
    /\ delta_time' = delta
    /\ cycles_to_execute' = delta
    /\ cycles_count' = 0
    /\ ops' = ops + 1
    /\ h_last' = Step("tick", delta, 0)
    /\ UNCHANGED <<memory_mode, registers, memory, cartridge, banks, panicked,
                   overflow_checks, h_rom, h_armed, h_enable, h_twin, h_tac>>

Tick(delta) == Idle /\ TickCall(delta) /\ UNCHANGED h_tick

\* a loop that goes on when the count equals the budget
M_LoopDone(count, budget) == count > budget

\* the loop's exit test: the negation of `cycles_count < cycles_to_execute`
LoopDone(count, budget) == count >= budget

\* tick, "Instructions execution": the rest of an iteration, once the opcode
\* was fetched (f), the instruction decoded (d) and executed (e)
LoopExecuted(f, d, e) ==
    /\ f.gb.panicked \/ f.byte \in Modelled
    /\ Install(e.gb)
    /\ cycles_count' = cycles_count + e.cycles
    /\ phase' = IF LoopDone(cycles_count + e.cycles, cycles_to_execute)
                THEN "timers" ELSE "loop"
    /\ h_armed' = IF ~f.gb.panicked /\ d.instruction.op \in {"Ei", "RetEnableInterrupts"}
                  THEN TRUE ELSE h_armed
    /\ h_last' = Step("instruction", Machine.registers.pc, f.byte)

\* instruction.execute(self)
LoopDecoded(f, d) == LoopExecuted(f, d, execute(d.gb, d.instruction))

\* self.decode(opcode)
LoopFetched(f) == LoopDecoded(f, decode(f.gb, f.byte))

\* tick, "Instructions execution": one iteration of the loop
LoopIteration ==
    /\ phase = "loop" /\ ~panicked
    /\ LoopFetched(fetch(Machine))
    /\ UNCHANGED <<delta_time, cycles_to_execute, ops, h_rom, h_enable, h_twin, h_tac>>

TickLoop == LoopIteration /\ UNCHANGED h_tick

\* tick, "Timers"
TimersBlock ==
    /\ phase = "timers" /\ ~panicked
    /\ Install(tick_timers(Machine, delta_time))
    /\ phase' = "interrupts"
    /\ h_last' = Step("timers", delta_time, 0)
    /\ UNCHANGED <<delta_time, cycles_to_execute, cycles_count, ops,
                   h_rom, h_armed, h_enable, h_twin, h_tac>>

TickTimers == TimersBlock /\ UNCHANGED h_tick

\* an interrupt was serviced between gb and after
Serviced(gb, after) ==
    \/ after.registers.pc # gb.registers.pc
    \/ after.registers.sp # gb.registers.sp
    \/ after.memory # gb.memory
    \/ after.registers.ime # gb.registers.ime

\* tick, "Interrupts"; tick returns
TickInterrupts ==
    /\ phase = "interrupts" /\ ~panicked
    /\ LET after == tick_interrupts(Machine)
       IN  /\ Install(after)
           /\ h_armed' = IF Serviced(Machine, after) THEN FALSE ELSE h_armed
    /\ phase' = "idle"
    /\ h_last' = Step("interrupts", IF registers.ime THEN 1 ELSE 0, 0)
    /\ UNCHANGED <<delta_time, cycles_to_execute, cycles_count, ops,
                   h_rom, h_enable, h_twin, h_tac, h_tick>>

Next ==
    \/ \E address \in Addrs, value \in Values : Write8(address, value)
    \/ \E address \in Addrs16, value \in Values16 : Write16(address, value)
    \/ \E kind \in InterruptKinds : RaiseInterrupt(kind)
    \/ \E delta \in Deltas : Tick(delta)
    \/ TickLoop
    \/ TickTimers
    \/ TickInterrupts

Spec == Init /\ [][Next]_vars

-----------------------------------------------------------------------------
(* The bus alone: the host's write_u8 and write_u16 calls on every cartridge
   type, with wider sets of addresses and values *)

InitBus == Boot(Cartridges, {<<\hFB, \h00>>}, {FALSE})

IdleBus == ~panicked /\ ops < MaxBusOps

BusWrite8(address, value, other) == IdleBus /\ Write8Twin(address, value, other)

BusWrite16(address, value, other) == IdleBus /\ Write16Twin(address, value, other)

NextBus ==
    \/ \E address \in BusAddrs, value \in BusValues, other \in TwinValues :
            BusWrite8(address, value, other)
    \/ \E address \in BusAddrs16, value \in BusValues16, other \in TwinValues16 :
            BusWrite16(address, value, other)

SpecBus == InitBus /\ [][NextBus]_vars

-----------------------------------------------------------------------------
(* Properties.  IE is the interrupt-enable register of the specification,
   the byte at 0xFFFF; IF is the byte at 0xFF0F. *)

MachineNext ==
    [ memory_mode     |-> memory_mode',
      registers       |-> registers',
      memory          |-> memory',
      cartridge       |-> cartridge',
      banks           |-> banks',
      panicked        |-> panicked',
      overflow_checks |-> overflow_checks' ]

\* the interrupt bits 0..4 set in v
Low5(v) == BitAnd(v, 31)

\* IF & IE, bits 0..4
PendingIE == Low5(BitAnd(Get(memory, \hFF0F), Get(memory, \hFFFF)))

\* the lowest bit set in v (v # 0)
LowestBit(v) == CHOOSE k \in 0..7 : TestBit(v, k) /\ \A j \in 0..(k - 1) : ~TestBit(v, j)

\* the dispatch step of a tick is about to run
AtDispatch == phase = "interrupts" /\ ~panicked

\* the dispatch step serviced interrupt k alone: IME cleared, bit k of IF cleared
\* and the other bits kept, the interrupted PC pushed (low byte at the new SP),
\* PC at the vector
ServicedOnly(k) ==
    /\ registers'.ime = FALSE
    /\ Get(memory', \hFF0F) = Get(memory, \hFF0F) - Shl1(k)
    /\ registers'.sp = registers.sp - 2
    /\ read_u8(MachineNext, registers'.sp) = registers.pc % 256
    /\ read_u8(MachineNext, registers'.sp + 1) = registers.pc \div 256
    /\ registers'.pc = \h40 + 8 * k

\* C1: if IME = 1 and exactly one bit k of IF & IE is set at the dispatch step,
\* the tick ends with IME = 0, bit k of IF cleared and the other bits kept,
\* SP lower by 2, the interrupted PC at the new SP (low byte first) and
\* PC = 0x40 + 8k.
C1_InterruptService ==
    [][ \A k \in 0..4 :
          (AtDispatch /\ registers.ime /\ PendingIE = Shl1(k)) => ServicedOnly(k) ]_vars

\* C2: if IME = 1 and two or more bits of IF & IE are set at the dispatch step,
\* exactly one interrupt is serviced, the lowest-numbered pending one: only its
\* bit of IF is cleared, SP drops by 2, the one pushed address is the
\* interrupted PC, PC is its vector.  Stated for the dispatch steps where the
\* byte at 0xFFFF and the byte tick consults enable the same interrupts, so
\* that the step does not depend on which of the two is read (C4).
C2_InterruptPriority ==
    [][ ( /\ AtDispatch /\ registers.ime
          /\ Low5(Get(memory, \hFFFF)) = Low5(Get(memory, IE))
          /\ PendingIE # 0
          /\ PendingIE # Shl1(LowestBit(PendingIE)) )
        => ServicedOnly(LowestBit(PendingIE)) ]_vars

\* the dispatch step serviced an interrupt
ServiceStep ==
    /\ AtDispatch
    /\ \/ registers'.pc # registers.pc
       \/ registers'.sp # registers.sp
       \/ memory' # memory

ServicedBit(k) ==
    /\ TestBit(Get(memory, \hFF0F), k)
    /\ ~TestBit(Get(memory', \hFF0F), k)
    /\ registers'.sp # registers.sp

\* C4: the interrupt-enable register consulted by dispatch is the byte at
\* 0xFFFF: an interrupt whose bit is 0 there is not serviced, whatever LCDC
\* (0xFF40) holds, and one whose bit is 1 in IF and at 0xFFFF is serviced when
\* IME = 1.
C4_InterruptEnableAt0xFFFF ==
    [][ AtDispatch =>
          \A k \in 0..4 :
            /\ ~TestBit(Get(memory, \hFFFF), k) => ~ServicedBit(k)
            /\ (registers.ime /\ TestBit(PendingIE, k)) => ServiceStep ]_vars

\* C5: Cpu::interrupt(kind) sets the bit of kind in IF, whether IME is 0 or 1,
\* and changes nothing else (no other IF bit, no register, no other memory, no
\* cartridge state); raising the same kind again changes nothing.
C5_RaiseInterrupt ==
    [][ h_last'.op = "interrupt" =>
          LET bit == Shl1(h_last'.a) IN
          /\ Get(memory', \hFF0F) = BitOr(Get(memory, \hFF0F), bit)
          /\ \A a \in (Cells(memory) \cup Cells(memory')) \ {\hFF0F} :
                Get(memory', a) = Get(memory, a)
          /\ registers' = registers
          /\ memory_mode' = memory_mode
          /\ banks' = banks
          /\ cartridge' = cartridge
          /\ ~panicked'
          /\ \A kind \in InterruptKinds :
                InterruptBit(kind) = h_last'.a => interrupt(MachineNext, kind) = MachineNext
      ]_vars

\* C5's case: a bit that was clear has just been raised while IME = 1
C5_Witness ==
    /\ h_last = Step("interrupt", 3, 0)
    /\ registers.ime
    /\ Get(memory, \hFF0F) = \hE9

\* the sampled addresses of ROM bank 0
Bank0Addrs == {\h0000, \h0040, \h0100, \h0101, \h0147, \h2000, \h3FFF}

\* C6: the cartridge ROM buffer is the loaded image after any sequence of
\* write_u8/write_u16 calls, instructions and ticks, and a read in
\* 0x0000-0x3FFF returns ROM[addr].
C6_RomNeverMutated ==
    /\ cartridge = h_rom
    /\ \A a \in Bank0Addrs : read_u8(Machine, a) = Get(h_rom, a)

\* C6's case: the host has written into the ROM area three times, the
\* latest with write_u16 across 0x3FFF/0x4000
C6_Witness ==
    /\ h_last = Step("write_u16", \h3FFF, \h0103)
    /\ ops = MaxOps
    /\ memory_mode.kind = "MBC1" /\ memory_mode.rom_bank_idx = 3

-----------------------------------------------------------------------------
(* Properties of the bus *)

\* the byte of the latest write_u8 or write_u16 call that landed in 0x2000-0x3FFF
\* (None if the latest call wrote nothing there)
LastBankSelect ==
    CASE h_last.op = "write_u8" /\ h_last.a \in \h2000..\h3FFF -> Some(h_last.v)
      [] h_last.op = "write_u16" /\ (h_last.a + 1) \in \h2000..\h3FFF ->
            Some(h_last.v \div 256)
      [] h_last.op = "write_u16" /\ h_last.a \in \h2000..\h3FFF -> Some(h_last.v % 256)
      [] OTHER -> None

\* C7: on an MBC1 cartridge rom_bank_idx is never 0, in either banking mode
\* and after any writes; a write to 0x2000-0x3FFF of a value whose low 5 bits
\* are 0 selects bank 1.
C7_Mbc1BankNeverZero ==
    memory_mode.kind = "MBC1" =>
        /\ rom_bank_idx(memory_mode) # 0
        /\ (LastBankSelect # None /\ BitAnd(LastBankSelect[1], 31) = 0)
              => rom_bank_idx(memory_mode) = 1

\* C7's case: in ROM-banking mode with upper bits selected, a value whose low
\* 5 bits are 0 has just been written to 0x2000
C7_Witness ==
    /\ memory_mode.kind = "MBC1"
    /\ ~memory_mode.ram_banking
    /\ h_last = Step("write_u8", \h2000, \h20)
    /\ ops = 3
    /\ rom_bank_idx(memory_mode) = 1

\* the sampled addresses of the switchable ROM window
WindowAddrs == {\h4000, \h4001, \h5FFF, \h7FFF}

\* C8: a read at a in 0x4000-0x7FFF returns
\* ROM[(a - 0x4000) + rom_bank_idx * 0x4000], in every reachable state and for
\* every MBC variant.
C8_SwitchableRomRead ==
    \A a \in WindowAddrs :
        LET i == (a - \h4000) + rom_bank_idx(memory_mode) * \h4000
        IN  /\ InBounds(h_rom, i)
            /\ read_u8(Machine, a) = Get(h_rom, i)

\* C8 where the selected bank lies inside the image
C8_ReadInsideImage ==
    \A a \in WindowAddrs :
        LET i == (a - \h4000) + rom_bank_idx(memory_mode) * \h4000
        IN  InBounds(h_rom, i) => read_u8(Machine, a) = Get(h_rom, i)

\* the RAM-enable flag of the controller
RamFlag(mode) ==
    IF mode.kind = "MBC3" THEN mode.ram_rtc_enabled ELSE mode.ram_enabled

\* C9: on MBC1, MBC3 and MBC5 the RAM-enable flag is true exactly when the
\* most recent write to 0x0000-0x1FFF had low nibble 0xA, false if there was
\* none, and a write to any other address does not change it.
C9_RamEnableFlag ==
    memory_mode.kind \in {"MBC1", "MBC3", "MBC5"} =>
        RamFlag(memory_mode) = (h_enable # None /\ BitAnd(h_enable[1], 15) = 10)

\* C9's case: RAM was enabled by a value with low nibble 0xA and other bits
\* set, then disabled, then enabled again through the low byte of a write_u16
\* at 0x1FFF whose high byte went to 0x2000
C9_Witness ==
    /\ memory_mode.kind = "MBC3"
    /\ h_last = Step("write_u16", \h1FFF, \h000A)
    /\ h_enable = Some(\h0A)
    /\ ops = 3
    /\ memory_mode.ram_rtc_enabled

\* the sampled addresses of the external-RAM window
RamAddrs == {\hA000, \hA001, \hBFFF}

\* C10: with external RAM disabled, a read in 0xA000-0xBFFF returns the same
\* byte in two runs that differ only in the values written to 0xA000-0xBFFF
\* earlier.
C10_DisabledRamReads ==
    (memory_mode.kind \in {"MBC1", "MBC2", "MBC3", "MBC5"} /\ ~RamFlag(memory_mode)) =>
        \A a \in RamAddrs : read_u8(Machine, a) = read_u8(Twin, a)

\* C10's case: RAM was enabled, the two runs wrote different bytes at 0xA000,
\* and RAM has been disabled again
C10_Witness ==
    /\ memory_mode.kind = "MBC1"
    /\ ~memory_mode.ram_enabled
    /\ h_last = Step("write_u8", \h0000, \h00)
    /\ Get(banks, 0) = \h03
    /\ Get(h_twin, 0) = \h5A

\* C11: on MBC1 and MBC5 a read at a in 0xA000-0xBFFF returns the external-RAM
\* byte at (a - 0xA000) + ram_bank_idx * 0x2000 when ram_enabled is true, and
\* 0xFF when it is false.
C11_RamBankRead ==
    memory_mode.kind \in {"MBC1", "MBC5"} =>
        \A a \in RamAddrs :
            LET i == (a - \hA000) + memory_mode.ram_bank_idx * \h2000
            IN  IF memory_mode.ram_enabled
                THEN InBounds(banks, i) => read_u8(Machine, a) = Get(banks, i)
                ELSE read_u8(Machine, a) = \hFF

\* the latest call was a write that touched only addresses in lo..hi
WroteWithin(lo, hi) ==
    \/ h_last'.op = "write_u8" /\ h_last'.a \in lo..hi
    \/ h_last'.op = "write_u16" /\ h_last'.a \in lo..hi /\ (h_last'.a + 1) \in lo..hi

\* C12: the bank controller's state changes only on writes to 0x0000-0x7FFF:
\* a write to 0x8000-0xFFFF leaves it unchanged, and on a RomOnly cartridge a
\* write to 0x0000-0x7FFF changes no state at all.  (Reads take &self and
\* return a byte: read_u8 and read_u16 have no state to change.)
C12_MbcStateFrame ==
    [][ /\ WroteWithin(\h8000, \hFFFF) => memory_mode' = memory_mode
        /\ (memory_mode.kind = "RomOnly" /\ WroteWithin(\h0000, \h7FFF))
              => MachineNext = Machine ]_vars

\* C12's case: on MBC5 with RAM enabled and RAM bank 3 selected, a byte has
\* just been written to 0xA000: external RAM changed, the controller did not
C12_Witness ==
    /\ memory_mode.kind = "MBC5"
    /\ memory_mode.ram_enabled
    /\ memory_mode.ram_bank_idx = 3
    /\ h_last = Step("write_u8", \hA000, \h83)
    /\ Get(banks, 3 * RAM_BANK_SIZE) = \h83

-----------------------------------------------------------------------------
(* Work RAM, echo RAM and the timer registers: the host's write_u8 calls on
   every cartridge type *)

InitIo == Boot(Cartridges, {<<\hFB, \h00>>}, {FALSE})

IoWrite8(address, value) ==
    /\ ~panicked /\ ops < MaxIoOps
    /\ Write8Twin(address, value, value)

NextIo == \E address \in IoAddrs, value \in IoValues : IoWrite8(address, value)

SpecIo == InitIo /\ [][NextIo]_vars

\* the sampled addresses of echo RAM
EchoAddrs == {\hE000, \hE001, \hFDFF}

\* C13: for every a in 0xE000-0xFDFF, read_u8(a) = read_u8(a - 0x2000), and
\* write_u8(a, v) produces the same state as write_u8(a - 0x2000, v).
C13_EchoRam ==
    \A a \in EchoAddrs :
        /\ read_u8(Machine, a) = read_u8(Machine, a - \h2000)
        /\ \A v \in IoValues : write_u8(Machine, a, v) = write_u8(Machine, a - \h2000, v)

\* C13's case: 0xDDFF was written through its echo 0xFDFF and 0xC000 holds a
\* written byte too; the cells 0xE000 and 0xFDFF of the memory array
\* themselves still hold what reset left there
C13_Witness ==
    /\ h_last = Step("write_u8", \hFDFF, \h05)
    /\ Get(memory, \hDDFF) = \h05
    /\ Get(memory, \hC000) = \hFF
    /\ Get(memory, \hFDFF) = \h03
    /\ Get(memory, \hE000) = \h03

-----------------------------------------------------------------------------
(* SpecTick: ticks of several lengths with host writes to DIV and TAC, on the
   EI; NOP program and on the CALL program *)

MaxTickOps == 3

SliceDeltas == {0, 128, 512}
SliceAddrs == {DIV, TAC}
SliceValues == {\h05, \hFF}

InitTick ==
    \E cart \in Cartridges, mf \in MemoryFills, rf \in RamFills :
        \E image \in {MkImage(cart, <<\hFB, \h00>>), CallImage(cart)} :
            BootFrom(image, mf, rf, FALSE)

SliceWrite8(address, value) ==
    /\ phase = "idle" /\ ~panicked /\ ops < MaxTickOps
    /\ Write8Twin(address, value, value)

SliceTick(delta) ==
    /\ ops < MaxTickOps
    /\ TickCall(delta)
    /\ h_tick' = [h_tick EXCEPT !.deltas = @ + delta,
                                !.instructions = 0,
                                !.single = @ /\ delta \div 256 <= 1]

SliceLoop ==
    /\ LoopIteration
    /\ h_tick' = [h_tick EXCEPT !.instructions = @ + 1]

SliceTimers ==
    /\ TimersBlock
    /\ h_tick' = [h_tick EXCEPT !.divs = @ + ((Get(memory', DIV) - Get(memory, DIV)) % 256)]

NextTick ==
    \/ \E address \in SliceAddrs, value \in SliceValues : SliceWrite8(address, value)
    \/ \E delta \in SliceDeltas : SliceTick(delta)
    \/ SliceLoop
    \/ SliceTimers
    \/ TickInterrupts

SpecTick == InitTick /\ [][NextTick]_vars

\* C14: after write_u8(0xFF04, v) the next read of DIV returns 0, for every v,
\* every MBC variant and whatever DIV held before the write.
C14_DivWrite ==
    /\ (h_last.op = "write_u8" /\ h_last.a = DIV) => read_u8(Machine, DIV) = 0
    /\ (phase = "idle" /\ ~panicked) =>
            \A v \in SliceValues : read_u8(write_u8(Machine, DIV, v), DIV) = 0

\* a write to DIV that followed a tick which had advanced DIV to 0xAC
C14_Witness ==
    /\ h_last = Step("write_u8", DIV, \hFF)
    /\ ops = 2 /\ h_tick.divs = 1
    /\ memory_mode.kind = "MBC3"
    /\ Get(memory, DIV) = 0

\* the loop of the slice has ended and the slice has not returned
SliceExit == phase \in {"timers", "interrupts"} /\ ~panicked

\* on exit at least one instruction ran and the count reached the budget
ExitReached == h_tick.instructions >= 1 /\ cycles_count >= cycles_to_execute

\* the loop goes on only below the budget: the instruction that reaches it is the last
LoopOpen == (phase = "loop" /\ h_tick.instructions >= 1) => cycles_count < cycles_to_execute

\* an iteration executes one instruction, adds its cycles to the count, and
\* leaves DIV, TIMA and IF to the timer and interrupt steps that follow the loop
LoopStep ==
    (phase = "loop" /\ ~panicked') =>
        /\ h_tick'.instructions = h_tick.instructions + 1
        /\ cycles_count' > cycles_count
        /\ cycles_to_execute' = cycles_to_execute
        /\ phase' \in {"loop", "timers"}
        /\ \A a \in {DIV, TIMA, IF_REG} : Get(memory', a) = Get(memory, a)

\* C16 (amended): tick executes instructions one after another, each adding to
\* the count, stops right after the first instruction that brings the count to
\* at least B, runs at least one instruction, and only then advances the
\* timers and dispatches; the count on exit is less than B + 24 when B >= 1
\* and at most 24 when B = 0.
C16_TickLoop ==
    /\ [](SliceExit =>
            /\ ExitReached
            /\ cycles_count <= cycles_to_execute + 24
            /\ (cycles_to_execute >= 1 => cycles_count < cycles_to_execute + 24))
    /\ []LoopOpen
    /\ [][LoopStep]_vars

\* C16 as stated: the count on exit is less than B + 24 for every B
C16_TickLoopStated ==
    /\ [](SliceExit => (ExitReached /\ cycles_count < cycles_to_execute + 24))
    /\ []LoopOpen
    /\ [][LoopStep]_vars

\* a slice with B = 0 whose one instruction is the CALL: the count on exit is 24
C16_Witness ==
    /\ phase = "timers" /\ ~panicked
    /\ cycles_to_execute = 0 /\ cycles_count = 24
    /\ h_tick.instructions = 1
    /\ h_last = Step("instruction", \h0100, \hCD)
    /\ registers.pc = \h0150 /\ registers.sp = \hFFFC

\* C17: the fraction of a DIV period a tick leaves over is carried to the next
\* tick: once the ticks d1..dn have returned, DIV has been incremented
\* floor((d1 + ... + dn) * 16384) times in total (each tick here yields at
\* most one increment by itself).
C17_FractionCarried ==
    (phase = "idle" /\ ~panicked /\ h_tick.single) =>
        h_tick.divs = h_tick.deltas \div 256

\* C18: the timer step of a tick with n = floor(delta * 16384) divider ticks
\* leaves DIV = (d + n) mod 256, d being DIV after the slice's last instruction.
C18_DivAdvance ==
    [][ (phase = "timers" /\ ~panicked /\ ~panicked') =>
            Get(memory', DIV) = (Get(memory, DIV) + (delta_time \div 256)) % 256 ]_vars

\* TIMA and IF after n timer ticks, as <<TIMA, IF>>
RECURSIVE TimaAfter(_, _, _, _)
TimaAfter(tima, tma, flags, n) ==
    IF n = 0 THEN <<tima, flags>>
    ELSE IF tima = \hFF THEN TimaAfter(tma, tma, BitOr(flags, 4), n - 1)
    ELSE TimaAfter(tima + 1, tma, flags, n - 1)

\* C19: with bit 2 of TAC (the value last written to it) set, the timer step
\* increments TIMA once per timer tick of the slice, an increment from 0xFF
\* loading TMA and setting bit 2 of IF; with bit 2 clear it leaves TIMA and IF
\* unchanged.
C19_TimaAdvance ==
    [][ (phase = "timers" /\ ~panicked /\ ~panicked' /\ h_tac # None) =>
            LET tac == h_tac[1]
                n == IF BitAnd(tac, 4) # 0 THEN delta_time \div TimerPeriod(tac) ELSE 0
            IN  <<Get(memory', TIMA), Get(memory', IF_REG)>> =
                    TimaAfter(Get(memory, TIMA), Get(memory, TMA), Get(memory, IF_REG), n)
      ]_vars

-----------------------------------------------------------------------------
(* SpecReg: Register8Index::set on the registers of a machine after boot *)

MaxRegOps == 2

RegIndices == Register8Index \ {"HL"}
RegValues == {\h00, \h12, \hFF}

InitReg == Boot(Cartridges, {<<\hFB, \h00>>}, {FALSE})

RegSet(index, value) ==
    /\ phase = "idle" /\ ~panicked /\ ops < MaxRegOps
    /\ Install(Register8Index_set(Machine, index, value))
    /\ ops' = ops + 1
    /\ h_last' = Step("set", Discriminant(index), value)
    /\ UNCHANGED <<phase, delta_time, cycles_to_execute, cycles_count,
                   h_rom, h_armed, h_enable, h_twin, h_tac, h_tick>>

NextReg == \E index \in RegIndices, value \in RegValues : RegSet(index, value)

SpecReg == InitReg /\ [][NextReg]_vars

\* the index of the other half of the pair
OtherHalf(index) ==
    CASE index = "A" -> "F" [] index = "F" -> "A"
      [] index = "B" -> "C" [] index = "C" -> "B"
      [] index = "D" -> "E" [] index = "E" -> "D"
      [] index = "H" -> "L" [] index = "L" -> "H"

\* C20: the halves of AF, BC, DE, HL are independent: a write of v to a high
\* half changes only bits 15..8 of the pair, a write to a low half only bits
\* 7..0, the written half reads back v, the other half and the other pairs
\* are unchanged, and the 16-bit value is high * 256 + low.
C20_RegisterHalves ==
    [][ \A index \in RegIndices :
          (h_last'.op = "set" /\ h_last'.a = Discriminant(index)) =>
            LET pair == PairOf(index)
                old == registers[pair]
                new == registers'[pair]
                v == h_last'.v
            IN  /\ new = IF IsHi(index) THEN v * 256 + (old % 256)
                                         ELSE (old \div 256) * 256 + v
                /\ Register8Index_get(MachineNext, index) = v
                /\ Register8Index_get(MachineNext, OtherHalf(index)) =
                        Register8Index_get(Machine, OtherHalf(index))
                /\ new = (IF IsHi(index) THEN v
                          ELSE Register8Index_get(MachineNext, OtherHalf(index))) * 256
                        + (IF IsHi(index)
                           THEN Register8Index_get(MachineNext, OtherHalf(index)) ELSE v)
                /\ \A other \in {"af", "bc", "de", "hl", "sp", "pc"} \ {pair} :
                        registers'[other] = registers[other]
      ]_vars

\* C15: a write of v to TAC stores v (read_u8(0xFF07) = v afterwards), and
\* TIMA becomes 0 exactly when the two low bits of v differ from those of the
\* previous TAC value, and is unchanged otherwise.
C15_TacWrite ==
    [][ (h_last'.op = "write_u8" /\ h_last'.a = TAC) =>
          /\ read_u8(MachineNext, TAC) = h_last'.v
          /\ Get(memory', TIMA) =
                IF BitAnd(h_last'.v, 3) # BitAnd(Get(memory, TAC), 3)
                THEN 0 ELSE Get(memory, TIMA) ]_vars

-----------------------------------------------------------------------------
(* The bank controllers: MBC1 and MBC2 register writes, MBC2 RAM, MBC3 RTC *)

\* C27: on MBC1 a write of v to 0x2000-0x3FFF sets the low 5 bits of
\* rom_bank_idx to v & 0x1F (1 when that is 0) and leaves bits 6..5 unchanged.
C27_Mbc1LowBits ==
    [][ (memory_mode.kind = "MBC1" /\ h_last'.op = "write_u8"
            /\ h_last'.a \in \h2000..\h3FFF) =>
          LET low == BitAnd(h_last'.v, 31) IN
          rom_bank_idx(memory_mode') =
              (rom_bank_idx(memory_mode) \div 32) * 32 + (IF low = 0 THEN 1 ELSE low)
      ]_vars

\* C28: on MBC2 a write of v to a in 0x0000-0x3FFF is decoded by bit 8 of a:
\* clear, it sets ram_enabled to (v & 0x0F = 0x0A) and leaves rom_bank_idx;
\* set, it sets rom_bank_idx to v & 0x0F (1 when 0) and leaves ram_enabled.
C28_Mbc2AddressBit8 ==
    [][ (memory_mode.kind = "MBC2" /\ h_last'.op = "write_u8"
            /\ h_last'.a \in \h0000..\h3FFF) =>
          LET low == BitAnd(h_last'.v, 15) IN
          IF BitAnd(h_last'.a, 256) = 0
          THEN /\ memory_mode'.ram_enabled = (low = 10)
               /\ memory_mode'.rom_bank_idx = memory_mode.rom_bank_idx
          ELSE /\ memory_mode'.rom_bank_idx = (IF low = 0 THEN 1 ELSE low)
               /\ memory_mode'.ram_enabled = memory_mode.ram_enabled
      ]_vars

\* C29: on MBC2 with RAM enabled a read at a in 0xA000-0xBFFF completes and
\* returns the built-in RAM byte at (a - 0xA000) & 0x01FF.
C29_Mbc2RamRead ==
    (memory_mode.kind = "MBC2" /\ memory_mode.ram_enabled /\ ~panicked) =>
        \A a \in RamAddrs :
            /\ read_u8(Machine, a) # PANIC
            /\ read_u8(Machine, a) = Get(banks, BitAnd(a - \hA000, \h1FF))

-----------------------------------------------------------------------------
(* SpecRtc: host writes to the registers and the RAM window of an MBC3 *)

MaxRtcOps == 3

RtcAddrs == {\h0000, \h4000, \hA000}
RtcValues == {\h0A, \h08, \h0C, \h5A}

InitRtc == Boot({<<\h13, \h01, \h03>>}, {<<\hFB, \h00>>}, {FALSE})

RtcWrite8(address, value) ==
    /\ phase = "idle" /\ ~panicked /\ ops < MaxRtcOps
    /\ Write8Twin(address, value, value)

NextRtc == \E address \in RtcAddrs, value \in RtcValues : RtcWrite8(address, value)

SpecRtc == InitRtc /\ [][NextRtc]_vars

\* C30: on MBC3 with ram_rtc_enabled and an RTC register selected, a write of
\* v to 0xA000-0xBFFF updates the register, so the next read in the window
\* returns v, and external RAM is unchanged.
C30_RtcWrite ==
    [][ (memory_mode.kind = "MBC3" /\ memory_mode.ram_rtc_enabled
            /\ memory_mode.rtc_selected # None
            /\ h_last'.op = "write_u8" /\ h_last'.a \in \hA000..\hBFFF) =>
          /\ \A a \in RamAddrs : read_u8(MachineNext, a) = h_last'.v
          /\ banks' = banks
      ]_vars

-----------------------------------------------------------------------------
(* SpecBoot: GameBoy::new on ROM images with arbitrary header bytes *)

\* header bytes of the images: cartridge type, ROM size code, RAM size code,
\* destination code, complement check, and the image's length in bytes
BootTypes == {\h00, \h01, \h05, \h0F, \h19, \h04, \h08, \hFC}
BootRomCodes == {\h00, \h01, \h06, \h07, \h09}
BootRamCodes == {\h00, \h01, \h02, \h04}
BootDestinations == {\h00, \h01, \h02}
BootChecks == {\h00, \hE7}
BootLens == {\h0100, \h8000, \h10000, \h200000, \h400000}
BootMemoryFills == {\h00, \h03}

\* A ROM image of len bytes with the given header and NOP at the entry point
HeaderImage(type, rom, ram, dest, check, len) ==
    IF len < \h150 THEN Buffer(len, CHOOSE b \in RomFill : TRUE)
    ELSE SetAll(Buffer(len, CHOOSE b \in RomFill : TRUE),
            << <<CARTRIDGE_TYPE, type>>, <<ROM_SIZE, rom>>, <<RAM_SIZE, ram>>,
               <<DESTINATION_CODE, dest>>, <<COMPLEMENT_CHECK, check>>,
               <<\h0100, \h00>>, <<\h0101, \h18>>, <<\h0102, \hFD>> >>)

\* before GameBoy::new is called: the host holds the image, no machine exists
InitBoot ==
    \E type \in BootTypes, rom \in BootRomCodes, ram \in BootRamCodes,
       dest \in BootDestinations, check \in BootChecks, len \in BootLens,
       checks \in BOOLEAN :
        /\ h_rom = HeaderImage(type, rom, ram, dest, check, len)
        /\ memory_mode = [kind |-> "RomOnly"]
        /\ registers = RegisterFile_default
        /\ memory = Buffer(MEMORY_SIZE, 0)
        /\ cartridge = Buffer(0, 0)
        /\ banks = Buffer(0, 0)
        /\ panicked = FALSE
        /\ overflow_checks = checks
        /\ phase = "off"
        /\ delta_time = 0
        /\ cycles_to_execute = 0
        /\ cycles_count = 0
        /\ ops = 0
        /\ h_armed = FALSE
        /\ h_enable = None
        /\ h_twin = Buffer(0, 0)
        /\ h_tac = None
        /\ h_tick = [deltas |-> 0, divs |-> 0, instructions |-> 0, single |-> TRUE]
        /\ h_last = Step("none", 0, 0)

\* GameBoy::new(h_rom): the machine is installed, or the call panics
New(memory_fill, ram_fill) ==
    /\ phase = "off"
    /\ LET gb == GameBoy_new(h_rom, memory_fill, ram_fill, overflow_checks)
       IN  IF gb.panicked
           THEN /\ panicked' = TRUE
                /\ UNCHANGED <<memory_mode, registers, memory, cartridge, banks,
                               overflow_checks, h_twin>>
           ELSE /\ Install(gb)
                /\ h_twin' = gb.banks
    /\ phase' = "idle"
    /\ h_last' = Step("new", 0, 0)
    /\ UNCHANGED <<delta_time, cycles_to_execute, cycles_count, ops, h_rom, h_armed,
                   h_enable, h_tac, h_tick>>

NextBoot == \E mf \in BootMemoryFills, rf \in RamFills : New(mf, rf)

SpecBoot == InitBoot /\ [][NextBoot]_vars

\* GameBoy::new has returned a machine
Constructed == phase = "idle" /\ h_last.op = "new" /\ ~panicked

\* C22: after GameBoy::new, AF = 0x01B0 (0x0180 when ROM byte 0x014D is zero),
\* BC = 0x0013, DE = 0x00D8, HL = 0x014D, PC = 0x0100, SP = 0xFFFE, IME = 0:
\* the register file is a function of the ROM image alone.
C22_PostBootRegisters ==
    Constructed =>
        registers = [ af  |-> IF Get(h_rom, \h014D) = 0 THEN \h0180 ELSE \h01B0,
                      bc  |-> \h0013,
                      de  |-> \h00D8,
                      hl  |-> \h014D,
                      pc  |-> \h0100,
                      sp  |-> \hFFFE,
                      ime |-> FALSE ]

\* C23: after GameBoy::new every listed I/O register reads its DMG power-on
\* default at its hardware address; in particular LCDC (0xFF40) = 0x91,
\* NR30 (0xFF1A) = 0x7F, NR31 (0xFF1B) = 0xFF, DIV = 0xAB, TAC = 0xF8,
\* IF = 0xE1 and IE (0xFFFF) = 0x00.
C23_PostBootIo ==
    LET defaults ==
            { <<\hFF00, \hCF>>, <<\hFF02, \h7E>>, <<\hFF04, \hAB>>, <<\hFF07, \hF8>>,
              <<\hFF0F, \hE1>>, <<\hFF10, \h80>>, <<\hFF11, \hBF>>, <<\hFF12, \hF3>>,
              <<\hFF14, \hBF>>, <<\hFF16, \h3F>>, <<\hFF18, \hFF>>, <<\hFF19, \hBF>>,
              <<\hFF1A, \h7F>>, <<\hFF1B, \hFF>>, <<\hFF1C, \h9F>>, <<\hFF1D, \hFF>>,
              <<\hFF1E, \hBF>>, <<\hFF20, \hFF>>, <<\hFF23, \hBF>>, <<\hFF24, \h77>>,
              <<\hFF25, \hF3>>, <<\hFF26, \hF1>>, <<\hFF40, \h91>>, <<\hFF41, \h85>>,
              <<\hFF46, \hFF>>, <<\hFF47, \hFC>>, <<\hFF48, \hFF>>, <<\hFF49, \hFF>>,
              <<\hFFFF, \h00>> }
    IN  Constructed => \A e \in defaults : read_u8(Machine, e[1]) = e[2]

\* GameBoy::new has returned or panicked
NewCalled == phase = "idle" /\ h_last.op = "new"

\* C26 (as stated): GameBoy::new fails whenever the cartridge type maps to
\* NotSupported or Unknown, the ROM or RAM size code is reserved, the ROM has
\* more than 128 banks or the RAM more than 16, or the image's length is not
\* 16 KiB times the declared bank count; for every other image it succeeds.
C26_NewFailsStated ==
    LET type  == CartridgeType_from(Get(h_rom, CARTRIDGE_TYPE))
        rom   == RomSize_from(Get(h_rom, ROM_SIZE))
        ram   == RamSize_from(Get(h_rom, RAM_SIZE))
        fails == \/ h_rom.len < \h150
                 \/ type \in {"NotSupported", "Unknown"}
                 \/ rom = PANIC \/ ram = PANIC
                 \/ rom > 128 \/ ram > 16
                 \/ h_rom.len # 16384 * rom
    IN  NewCalled => (panicked <=> fails)

\* C26 (amended): GameBoy::new fails in the stated cases and also when the
\* destination code (byte 0x014A) is neither 0x00 nor 0x01; for every other
\* image it succeeds.
C26_NewFails ==
    LET type  == CartridgeType_from(Get(h_rom, CARTRIDGE_TYPE))
        rom   == RomSize_from(Get(h_rom, ROM_SIZE))
        ram   == RamSize_from(Get(h_rom, RAM_SIZE))
        fails == \/ h_rom.len < \h150
                 \/ type \in {"NotSupported", "Unknown"}
                 \/ rom = PANIC \/ ram = PANIC
                 \/ rom > 128 \/ ram > 16
                 \/ h_rom.len # 16384 * rom
                 \/ Get(h_rom, \h014A) \notin {\h00, \h01}
    IN  NewCalled => (panicked <=> fails)

\* GameBoy::new rejected an image whose only defect is its destination code
C26_Witness ==
    /\ NewCalled /\ panicked
    /\ Get(h_rom, \h014A) = \h02
    /\ Get(h_rom, CARTRIDGE_TYPE) = \h01 /\ Get(h_rom, ROM_SIZE) = \h01
    /\ Get(h_rom, RAM_SIZE) = \h02 /\ h_rom.len = \h10000

-----------------------------------------------------------------------------
(* SpecDecode: the decoder on every opcode, and on every second byte of 0xCB *)

\* the byte after an opcode other than 0xCB
OperandBytes == {\h00, \h0F}

InitDecode ==
    \E opcode \in 0..255, second \in 0..255, mf \in MemoryFills, rf \in RamFills :
        /\ opcode = \hCB \/ second \in OperandBytes
        /\ BootFrom(MkImage(<<\h00, \h00, \h02>>, <<opcode, second>>), mf, rf, FALSE)

\* Iterator::next on the decoder: fetch the opcode at PC and decode it
DecodeNext ==
    /\ phase = "idle" /\ ~panicked /\ h_last.op = "new"
    /\ LET f == fetch(Machine)
           d == decode(f.gb, f.byte)
       IN  /\ Install(d.gb)
           /\ h_last' = Step("decode", f.byte, read_u8(Machine, registers.pc + 1))
    /\ UNCHANGED <<phase, delta_time, cycles_to_execute, cycles_count, ops, h_rom, h_armed,
                   h_enable, h_twin, h_tac, h_tick>>

NextDecode == DecodeNext

SpecDecode == InitDecode /\ [][NextDecode]_vars

\* C24: decode yields an instruction for every base opcode except the eleven
\* undefined ones (0xD3, 0xDB, 0xDD, 0xE3, 0xE4, 0xEB, 0xEC, 0xED, 0xF4, 0xFC,
\* 0xFD), the rotates 0x07, 0x0F, 0x17, 0x1F and all eight RST included, and
\* for every second byte of 0xCB; each undefined opcode yields the error.
C24_DecodeTotal ==
    h_last.op = "decode" =>
        (panicked <=> h_last.a \in {\hD3, \hDB, \hDD, \hE3, \hE4, \hEB, \hEC, \hED,
                                    \hF4, \hFC, \hFD})

-----------------------------------------------------------------------------
(* SpecCpu: short programs run by tick(0), one instruction a tick *)

MaxCpuOps == 3

\* the first instruction: it leaves different flags and accumulators
CpuFirsts ==
    { <<\h00>>,             \* NOP
      <<\hFE, \h00>>,       \* CP 0x00
      <<\hFE, \hFF>>,       \* CP 0xFF
      <<\hAF>>,             \* XOR A
      <<\h3E, \h0F>>,       \* LD A, 0x0F
      <<\h86>>,             \* ADD A, (HL)
      <<\hCE, \hFF>>,       \* ADC A, 0xFF
      <<\h41>>,             \* LD B, C
      <<\hCD, \h50, \h01>>, \* CALL 0x0150
      <<\h3E, \hFF, \h06, \h01>>,   \* LD A, 0xFF; LD B, 0x01
      <<\h3E, \h42, \h06, \h08>> }  \* LD A, 0x42; LD B, 0x08

\* the second instruction: the jumps, calls, returns and restarts, one
\* instruction of each 8-bit ALU operand form, the loads through HL with a
\* step, and pushes and pops
CpuSeconds ==
    { <<\h18, \h02>>, <<\h20, \h02>>, <<\h28, \h02>>, <<\h30, \h02>>, <<\h38, \h02>>,
      <<\hC3, \h50, \h01>>, <<\hC2, \h50, \h01>>, <<\hCA, \h50, \h01>>,
      <<\hD2, \h50, \h01>>, <<\hDA, \h50, \h01>>, <<\hE9>>,
      <<\hCD, \h50, \h01>>, <<\hC4, \h50, \h01>>, <<\hCC, \h50, \h01>>,
      <<\hD4, \h50, \h01>>, <<\hDC, \h50, \h01>>,
      <<\hC9>>, <<\hC0>>, <<\hC8>>, <<\hD0>>, <<\hD8>>, <<\hD9>>,
      <<\hCF>>, <<\hDF>>, <<\hEF>>, <<\hFF>>,
      <<\h80>>, <<\h8E>>, <<\h96>>, <<\h99>>, <<\hA6>>, <<\hAA>>, <<\hB6>>, <<\hBB>>,
      <<\hC6, \h01>>, <<\hDE, \h01>>, <<\hE6, \hF0>>, <<\hFE, \hB0>>,
      <<\h22>>, <<\h2A>>, <<\h32>>, <<\h3A>>, <<\hC5>>, <<\hF5>>, <<\hC1>>, <<\hF1>> }

\* A ROM-only image with the program at the entry point and RET at 0x0150
ProgramImage(program) ==
    SetAll(MkImage(<<\h00, \h00, \h02>>, <<\h00, \h00>>),
           [k \in 1..Len(program) |-> <<\h00FF + k, program[k]>>]
           \o << <<\h0150, \hC9>> >>)

InitCpu ==
    \E first \in CpuFirsts, second \in CpuSeconds, mf \in BootMemoryFills, rf \in RamFills,
       checks \in BOOLEAN :
        BootFrom(ProgramImage(first \o second), mf, rf, checks)

\* the host calls tick(0.0): one instruction runs
CpuTick == ops < MaxCpuOps /\ TickCall(0) /\ UNCHANGED h_tick

NextCpu ==
    \/ CpuTick
    \/ TickLoop
    \/ TickTimers
    \/ TickInterrupts

SpecCpu == InitCpu /\ [][NextCpu]_vars

\* C21: in every state reachable from reset by executing instructions and ticks,
\* bits 3..0 of register F are zero.
C21_FlagLowNibble ==
    ~panicked => BitAnd(Register8Index_get(Machine, "F"), 15) = 0

\* C25: every executed instruction reports the cycle count of its family:
\* the 8-bit ALU instructions 8 when the operand is (HL) or an immediate and 4
\* otherwise; JR and JR cc 12 taken, 8 not taken; JP and JP cc 16, 12; JP HL 4;
\* CALL and CALL cc 24, 12; RET 16; RET cc 20, 8; RETI 16; RST 16; a branch
\* that reports the higher count has moved PC to its target, and one that
\* reports the lower count has left PC (beyond the fetch of its operands), SP
\* and memory unchanged.
C25_CycleCounts ==
    [][ (h_last'.op = "instruction" /\ ~panicked') =>
          LET opcode == h_last'.v
              at     == h_last'.a
              cycles == cycles_count' - cycles_count
              n8     == read_u8(Machine, at + 1)
              n16    == read_u8(Machine, at + 1) + 256 * read_u8(Machine, at + 2)
              pc     == registers'.pc
              untouched(len) ==
                  /\ pc = at + len
                  /\ registers'.sp = registers.sp
                  /\ memory' = memory /\ banks' = banks
          IN  /\ opcode \in \h80..\hBF => cycles = (IF opcode % 8 = 6 THEN 8 ELSE 4)
              /\ opcode \in {\hC6, \hCE, \hD6, \hDE, \hE6, \hEE, \hF6, \hFE} => cycles = 8
              /\ opcode = \h18 => cycles = 12
              /\ opcode \in {\h18, \h20, \h28, \h30, \h38} =>
                    \/ cycles = 12 /\ pc = (at + 2 + AsI8(n8)) % 65536
                    \/ cycles = 8 /\ untouched(2)
              /\ opcode = \hC3 => cycles = 16
              /\ opcode \in {\hC3, \hC2, \hCA, \hD2, \hDA} =>
                    \/ cycles = 16 /\ pc = n16
                    \/ cycles = 12 /\ untouched(3)
              /\ opcode = \hE9 => cycles = 4
              /\ opcode = \hCD => cycles = 24
              /\ opcode \in {\hCD, \hC4, \hCC, \hD4, \hDC} =>
                    \/ cycles = 24 /\ pc = n16
                    \/ cycles = 12 /\ untouched(3)
              /\ opcode \in {\hC9, \hD9} => cycles = 16
              /\ opcode \in {\hC0, \hC8, \hD0, \hD8} =>
                    \/ cycles = 20 /\ registers'.sp = (registers.sp + 2) % 65536
                    \/ cycles = 8 /\ untouched(1)
              /\ opcode \in {\hC7, \hCF, \hD7, \hDF, \hE7, \hEF, \hF7, \hFF} => cycles = 16
      ]_vars

\* a CALL cc that was not taken has run, and an ALU instruction on (HL) before it
C25_Witness ==
    /\ h_last.op = "instruction" /\ ~panicked
    /\ h_last.v \in {\hC4, \hCC, \hD4, \hDC}
    /\ cycles_count = 12
    /\ registers.pc = h_last.a + 3
    /\ Get(h_rom, \h0100) = \h86

-----------------------------------------------------------------------------
(* MBC5 ROM bank select *)

\* C31: on MBC5 a write of v to 0x2000-0x2FFF sets the low 8 bits of
\* rom_bank_idx to v, with no bump of 0 to 1, and leaves bit 8 unchanged; a
\* write to 0x3000-0x3FFF sets bit 8 to v & 1 and leaves the low 8 bits.
C31_Mbc5RomBank ==
    [][ (memory_mode.kind = "MBC5" /\ h_last'.op = "write_u8") =>
          /\ h_last'.a \in \h2000..\h2FFF =>
                rom_bank_idx(memory_mode') =
                    (rom_bank_idx(memory_mode) \div 256) * 256 + h_last'.v
          /\ h_last'.a \in \h3000..\h3FFF =>
                rom_bank_idx(memory_mode') =
                    BitAnd(h_last'.v, 1) * 256 + (rom_bank_idx(memory_mode) % 256)
      ]_vars

-----------------------------------------------------------------------------
(* Bank windows and the buffers behind them *)

\* C39: in every state reached by bank-select writes on a booted cartridge,
\* (rom_bank_idx + 1) * 0x4000 <= ROM length and, whenever external RAM is
\* enabled, (ram_bank_idx + 1) * 0x2000 <= RAM buffer length, so that no read
\* of 0x4000-0x7FFF or 0xA000-0xBFFF indexes outside its buffer.
C39_BankWindowsInside ==
    ~panicked =>
        /\ (rom_bank_idx(memory_mode) + 1) * ROM_BANK_SIZE <= cartridge.len
        /\ (memory_mode.kind # "RomOnly" /\ RamFlag(memory_mode)) =>
              (ram_bank_idx(memory_mode) + 1) * RAM_BANK_SIZE <= banks.len
        /\ \A a \in WindowAddrs : read_u8(Machine, a) # PANIC

\* the controller banks external RAM: MBC1 in RAM-banking mode, or MBC5
RamBanked(mode) ==
    \/ mode.kind = "MBC1" /\ mode.ram_banking
    \/ mode.kind = "MBC5"

\* the external-RAM cells that differ between two buffers
Differing(before, after) ==
    { i \in Cells(before) \cup Cells(after) : Get(before, i) # Get(after, i) }

\* C40: on MBC1 (RAM-banking mode) and MBC5 with RAM enabled, a write of v at
\* a in 0xA000-0xBFFF with bank b selected completes, is read back at a, and
\* changes no byte of any other bank; a bank-select write changes no byte of
\* external RAM; so after selecting any other bank, writing there and
\* re-selecting b, the read at a returns v.  No write in 0xA000-0xBFFF changes
\* the internal memory image.
C40_RamBanksIsolated ==
    [][ /\ WroteWithin(\hA000, \hBFFF) => memory' = memory
        /\ (RamBanked(memory_mode) /\ memory_mode.ram_enabled /\ h_last'.op = "write_u8") =>
              /\ h_last'.a \in \hA000..\hBFFF =>
                    /\ ~panicked'
                    /\ read_u8(MachineNext, h_last'.a) = h_last'.v
                    /\ \A i \in Differing(banks, banks') :
                          i \div RAM_BANK_SIZE = memory_mode.ram_bank_idx
              /\ h_last'.a \in \h4000..\h5FFF => banks' = banks
      ]_vars

\* C40 for the banks that lie inside the external-RAM buffer
C40_IsolatedInsideBuffer ==
    [][ /\ WroteWithin(\hA000, \hBFFF) => memory' = memory
        /\ (RamBanked(memory_mode) /\ memory_mode.ram_enabled /\ h_last'.op = "write_u8") =>
              /\ (h_last'.a \in \hA000..\hBFFF
                     /\ (memory_mode.ram_bank_idx + 1) * RAM_BANK_SIZE <= banks.len) =>
                    /\ ~panicked'
                    /\ read_u8(MachineNext, h_last'.a) = h_last'.v
                    /\ \A i \in Differing(banks, banks') :
                          i \div RAM_BANK_SIZE = memory_mode.ram_bank_idx
              /\ h_last'.a \in \h4000..\h5FFF => banks' = banks
      ]_vars

-----------------------------------------------------------------------------
(* The operands of the CB-prefixed instructions *)

\* the decoded instruction d has the operands that the second byte c encodes
PrefixedOperands(d, c) ==
    /\ ~d.gb.panicked
    /\ d.instruction.src = Register8Index_from(BitAnd(c, 7))
    /\ c >= \h40 => d.instruction.bit = BitAnd(Shr(c, 3), 7)

\* C32: for a CB-prefixed instruction with second byte c the operand is the
\* register (or (HL)) selected by c & 0b111 and, for BIT, RES and SET, the bit
\* index is (c >> 3) & 0b111: CB 7C tests bit 7 of H, and CB 0F is RRC A.
C32_PrefixedOperands ==
    [][ (h_last'.op = "decode" /\ h_last'.a = \hCB) =>
            /\ PrefixedOperands(decode(fetch(Machine).gb, \hCB), h_last'.v)
            /\ h_last'.v = \h7C =>
                  decode(fetch(Machine).gb, \hCB).instruction =
                      [op |-> "BitTest", bit |-> 7, src |-> "H"]
            /\ h_last'.v = \h0F =>
                  decode(fetch(Machine).gb, \hCB).instruction =
                      [op |-> "RotateRightCarry", src |-> "A"]
      ]_vars

-----------------------------------------------------------------------------
(* Conditional jumps, calls and returns *)

\* the conditional opcodes: JR cc, JP cc, CALL cc, RET cc
Conditionals ==
    {\h20, \h28, \h30, \h38, \hC2, \hCA, \hD2, \hDA, \hC4, \hCC, \hD4, \hDC,
     \hC0, \hC8, \hD0, \hD8}

\* the condition bits 4..3 of a conditional opcode hold in gb:
\* NZ (0), Z (1), NC (2), C (3)
ConditionHolds(gb, opcode) ==
    LET cc == BitAnd(Shr(opcode, 3), 3)
    IN  CASE cc = 0 -> ~test_flag(gb, "Zero")
          [] cc = 1 -> test_flag(gb, "Zero")
          [] cc = 2 -> ~test_flag(gb, "Carry")
          [] cc = 3 -> test_flag(gb, "Carry")

\* the cycle count a conditional opcode reports when taken
TakenCycles(opcode) ==
    CASE opcode \in {\h20, \h28, \h30, \h38} -> 12
      [] opcode \in {\hC2, \hCA, \hD2, \hDA} -> 16
      [] opcode \in {\hC4, \hCC, \hD4, \hDC} -> 24
      [] opcode \in {\hC0, \hC8, \hD0, \hD8} -> 20

\* the cycle count a conditional opcode reports when not taken
SkippedCycles(opcode) ==
    CASE opcode \in {\h20, \h28, \h30, \h38} -> 8
      [] opcode \in {\hC2, \hCA, \hD2, \hDA} -> 12
      [] opcode \in {\hC4, \hCC, \hD4, \hDC} -> 12
      [] opcode \in {\hC0, \hC8, \hD0, \hD8} -> 8

\* C33: a conditional JR, JP, CALL or RET is taken exactly when its condition
\* holds (NZ when Z = 0, Z when Z = 1, NC when C = 0, C when C = 1): taken, it
\* reports the higher cycle count, otherwise the lower.
C33_ConditionTaken ==
    [][ (h_last'.op = "instruction" /\ ~panicked' /\ h_last'.v \in Conditionals) =>
            cycles_count' - cycles_count =
                IF ConditionHolds(Machine, h_last'.v)
                THEN TakenCycles(h_last'.v)
                ELSE SkippedCycles(h_last'.v)
      ]_vars

-----------------------------------------------------------------------------
(* CALL and RET *)

\* work RAM or high RAM
StackRam(a) == a \in \hC000..\hDFFF \/ a \in \hFF80..\hFFFE

\* C34: with SP >= 2 and SP-2, SP-1 in work RAM or high RAM, CALL nn writes the
\* high byte of the return address (PC after the two immediate bytes) at SP-1
\* and the low byte at SP-2, sets SP to SP-2 and PC to nn; a RET executed next
\* restores SP and sets PC to that return address.
C34_CallRetRoundTrip ==
    [][ h_last'.op = "instruction" =>
          LET at == h_last'.a
              sp == registers.sp
          IN  /\ (h_last'.v = \hCD /\ sp >= 2 /\ StackRam(sp - 2) /\ StackRam(sp - 1)) =>
                    /\ ~panicked'
                    /\ read_u8(MachineNext, sp - 1) = (at + 3) \div 256
                    /\ read_u8(MachineNext, sp - 2) = (at + 3) % 256
                    /\ registers'.sp = sp - 2
                    /\ registers'.pc = read_u8(Machine, at + 1) + 256 * read_u8(Machine, at + 2)
              /\ (h_last'.v = \hC9 /\ at = \h0150 /\ ops = 2 /\ Get(h_rom, \h0100) = \hCD) =>
                    /\ ~panicked'
                    /\ registers'.sp = \hFFFE
                    /\ registers'.pc = \h0103
      ]_vars

\* C34's case: the program began with CALL 0x0150, and the RET at 0x0150 has
\* just returned to 0x0103 with the stack pointer of reset
C34_Witness ==
    /\ ~panicked
    /\ h_last = Step("instruction", \h0150, \hC9)
    /\ Get(h_rom, \h0100) = \hCD
    /\ ops = 2
    /\ registers.pc = \h0103 /\ registers.sp = \hFFFE
    /\ Get(memory, \hFFFD) = \h01 /\ Get(memory, \hFFFC) = \h03

-----------------------------------------------------------------------------
(* PUSH AF and POP AF *)

\* C35: opcode 0xF5 (PUSH AF) stores A at SP-1 and F with its low nibble zero
\* at SP-2 and decrements SP by 2; opcode 0xF1 (POP AF) loads F from the byte
\* at SP with its low nibble masked and A from the byte at SP+1, and
\* increments SP by 2; the stack pointer is never the data register.
C35_PushPopAf ==
    [][ h_last'.op = "instruction" =>
          LET sp == registers.sp
          IN  /\ (h_last'.v = \hF5 /\ sp >= 2) =>
                    /\ ~panicked'
                    /\ read_u8(MachineNext, sp - 1) = Register8Index_get(Machine, "A")
                    /\ read_u8(MachineNext, sp - 2) =
                           BitAnd(Register8Index_get(Machine, "F"), \hF0)
                    /\ registers'.sp = sp - 2
              /\ (h_last'.v = \hF1 /\ ~panicked') =>
                    /\ registers'.af = read_u8(Machine, sp + 1) * 256
                                           + BitAnd(read_u8(Machine, sp), \hF0)
                    /\ registers'.sp = (sp + 2) % 65536
      ]_vars

-----------------------------------------------------------------------------
(* LD (HL+),A  LD A,(HL+)  LD (HL-),A  LD A,(HL-) *)

\* the next state is the store of A at the address in HL, with HL moved by step
StoredThroughHl(step) ==
    /\ ~panicked'
    /\ memory' = write_u8(Machine, registers.hl, Register8Index_get(Machine, "A")).memory
    /\ banks' = write_u8(Machine, registers.hl, Register8Index_get(Machine, "A")).banks
    /\ registers'.hl = (registers.hl + step) % 65536
    /\ registers'.sp = registers.sp

\* the next state is the load of A from the address in HL, with HL moved by step
LoadedThroughHl(step) ==
    /\ ~panicked'
    /\ Register8Index_get(MachineNext, "A") = read_u8(Machine, registers.hl)
    /\ memory' = memory /\ banks' = banks
    /\ registers'.hl = (registers.hl + step) % 65536
    /\ registers'.sp = registers.sp

\* C38: LD (HL-),A (0x32) writes A to the address in HL and then sets HL to
\* HL - 1 mod 2^16, LD A,(HL-) (0x3A) loads A from the address in HL and then
\* decrements HL; both leave SP unchanged, as 0x22 and 0x2A do with an increment.
C38_LoadDecrement ==
    [][ h_last'.op = "instruction" =>
          /\ h_last'.v = \h32 => StoredThroughHl(65535)
          /\ h_last'.v = \h3A => LoadedThroughHl(65535)
          /\ h_last'.v = \h22 => StoredThroughHl(1)
          /\ h_last'.v = \h2A => LoadedThroughHl(1)
      ]_vars

\* C38 for the two loads that increment
C38_LoadIncrement ==
    [][ h_last'.op = "instruction" =>
          /\ h_last'.v = \h22 => StoredThroughHl(1)
          /\ h_last'.v = \h2A => LoadedThroughHl(1)
      ]_vars

-----------------------------------------------------------------------------
(* ADD A,x and ADC A,x *)

\* the operand x of an 8-bit ALU opcode fetched at `at`: the immediate byte,
\* or the register (or (HL)) selected by bits 2..0
AluOperand(opcode, at) ==
    IF opcode \in {\hC6, \hCE} THEN read_u8(Machine, at + 1)
    ELSE Register8Index_get(Machine, Register8Index_from(BitAnd(opcode, 7)))

\* the next state has the four flags of the sum A + x + cin
FlagsOfSum(x, cin) ==
    LET a == Register8Index_get(Machine, "A")
    IN  /\ ~panicked'
        /\ test_flag(MachineNext, "Zero") = ((a + x + cin) % 256 = 0)
        /\ ~test_flag(MachineNext, "Subtract")
        /\ test_flag(MachineNext, "HalfCarry") = (BitAnd(a, 15) + BitAnd(x, 15) + cin > 15)
        /\ test_flag(MachineNext, "Carry") = (a + x + cin > 255)

\* the next state has A = (A + x + cin) mod 256 and the four flags of the sum
AddedToA(x, cin) ==
    /\ FlagsOfSum(x, cin)
    /\ Register8Index_get(MachineNext, "A") = (Register8Index_get(Machine, "A") + x + cin) % 256

\* the carry flag as a number
CarryIn == IF test_flag(Machine, "Carry") THEN 1 ELSE 0

\* the opcodes of ADC A,x and of ADD A,x
AdcOpcodes == {\h88, \h89, \h8A, \h8B, \h8C, \h8D, \h8E, \h8F, \hCE}
AddOpcodes == {\h80, \h81, \h82, \h83, \h84, \h85, \h86, \h87, \hC6}

\* C36: ADC A,x, for every A and x in 0..255 and carry-in Cin: the instruction
\* completes, A becomes (A + x + Cin) mod 256, Z = (result = 0), N = 0,
\* H = ((A & 0x0F) + (x & 0x0F) + Cin > 0x0F), C = (A + x + Cin > 0xFF), the
\* case x = 0xFF with Cin = 1 included.
C36_AdcResult ==
    [][ (h_last'.op = "instruction" /\ h_last'.v \in AdcOpcodes) =>
            AddedToA(AluOperand(h_last'.v, h_last'.a), CarryIn)
      ]_vars

\* C36 without the value of A: ADC completes with the four flags of the sum
C36_AdcFlags ==
    [][ (h_last'.op = "instruction" /\ h_last'.v \in AdcOpcodes) =>
            FlagsOfSum(AluOperand(h_last'.v, h_last'.a), CarryIn)
      ]_vars

\* the program at the entry point begins with LD A, a; LD B, b; ADD A, B, and
\* its third instruction has just run
AddExample(a, b) ==
    /\ Get(h_rom, \h0100) = \h3E /\ Get(h_rom, \h0101) = a
    /\ Get(h_rom, \h0102) = \h06 /\ Get(h_rom, \h0103) = b
    /\ h_last' = Step("instruction", \h0104, \h80)

\* C37: ADD A,x, for every A and x: A becomes (A + x) mod 256 with Z, N = 0, H
\* and C of the sum; LD A,0xFF; LD B,0x01; ADD A,B leaves A = 0x00 with Z = 1,
\* N = 0, H = 1, C = 1, and LD A,0x42; LD B,0x08; ADD A,B leaves A = 0x4A with
\* the four flags 0.
C37_AddResult ==
    [][ /\ (h_last'.op = "instruction" /\ h_last'.v \in AddOpcodes) =>
              AddedToA(AluOperand(h_last'.v, h_last'.a), 0)
        /\ AddExample(\hFF, \h01) =>
              /\ Register8Index_get(MachineNext, "A") = \h00
              /\ BitAnd(Register8Index_get(MachineNext, "F"), \hF0) = \hB0
        /\ AddExample(\h42, \h08) =>
              /\ Register8Index_get(MachineNext, "A") = \h4A
              /\ BitAnd(Register8Index_get(MachineNext, "F"), \hF0) = \h00
      ]_vars

\* C37 without the value of A: ADD completes with the four flags of the sum
C37_AddFlags ==
    [][ (h_last'.op = "instruction" /\ h_last'.v \in AddOpcodes) =>
            FlagsOfSum(AluOperand(h_last'.v, h_last'.a), 0)
      ]_vars
====
